---- MODULE Spec2Model ----
(***************************************************************************)
(* Model of the compression service: the framing codec (packet.rs), the    *)
(* run-length compressor (compress.rs) and the per-connection dispatcher   *)
(* with its global statistics (main.rs).                                   *)
(*                                                                         *)
(* Three specifications share the module:                                  *)
(*   SpecDecode  the decoder alone, fed one byte stream in arbitrary       *)
(*               chunks, one match arm of decode per step;                 *)
(*   SpecBody    the GetStats body formatter applied to drawn counters;    *)
(*   Spec        the server: clients, sockets, Framed streams, the         *)
(*               dispatcher loop of every connection and the global stats. *)
(***************************************************************************)
EXTENDS Integers, Sequences, FiniteSets, TLC

\* ------------------------------------------------------------------------
\* Bounds of the model
\* ------------------------------------------------------------------------
\* longest garbage prefix put in front of the first packet (SpecDecode)
MaxGarbage == 3
\* number of packets the clients write, all connections together (Spec)
MaxPkts == 3
\* number of accepted connections (Spec)
NConn == 2
\* largest compressor byte count drawn for the body formatter (SpecBody)
MaxBefore == 100

\* ------------------------------------------------------------------------
\* Program constants
\* ------------------------------------------------------------------------
\* "STRY"
MAGIC_HEADER == <<83, 84, 82, 89>>
\* PacketCodec::new_with_max_payload(1 << 14)
max_payload_len == 16384

\* ------------------------------------------------------------------------
\* Byte helpers
\* ------------------------------------------------------------------------
\* src.get_u16(): big-endian 16-bit value of the first two bytes
get_u16(src) == src[1] * 256 + src[2]

\* dst.put_u16(v): big-endian bytes of v as u16
put_u16(v) == <<(v \div 256) % 256, v % 256>>

\* src.advance(n) / the tail left by split_to(n)
advance(src, n) == SubSeq(src, n + 1, Len(src))

\* the first n bytes of src
Take(src, n) == SubSeq(src, 1, n)

\* ------------------------------------------------------------------------
\* message.rs: RequestCode and StatusCode values
\* ------------------------------------------------------------------------
\* RequestCode::{Ping, GetStats, ResetStats, Compress(payload)}
RequestCode(code, payload) == [ok |-> TRUE, code |-> code, payload |-> payload]

\* StatusCode error variants (everything but Ok)
StatusErr(status) == [ok |-> FALSE, code |-> status, payload |-> <<>>]

\* StatusCode::Ok(payload)
StatusOk(payload) == [ok |-> TRUE, code |-> "Ok", payload |-> payload]

\* Ok(None) of decode: nothing to return yet
NoneRet == [ok |-> TRUE, code |-> "None", payload |-> <<>>]

\* ------------------------------------------------------------------------
\* packet.rs: DecodeState and PacketCodec::decode
\* ------------------------------------------------------------------------
StMagicHeader == [name |-> "MagicHeader", length |-> 0]
StPayloadLen == [name |-> "PayloadLen", length |-> 0]
StRequestCode(length) == [name |-> "RequestCode", length |-> length]
StPayload(length) == [name |-> "Payload", length |-> length]

\* result of one match arm: the new state, the buffer, the value returned
\* and whether the arm ends in the recursive call self.decode(src)
Arm(state, src, ret, again) ==
    [state |-> state, src |-> src, ret |-> ret, again |-> again]

\* variant of the MagicHeader arm that drops the whole 4-byte window on a miss
DecodeMagicHeader_window(state, src) ==
    IF Len(src) < Len(MAGIC_HEADER)
    THEN Arm(state, src, NoneRet, FALSE)
    ELSE IF Take(src, Len(MAGIC_HEADER)) = MAGIC_HEADER
         THEN Arm(StPayloadLen, advance(src, Len(MAGIC_HEADER)), NoneRet, TRUE)
         ELSE Arm(state, advance(src, Len(MAGIC_HEADER)), NoneRet, TRUE)

\* DecodeState::MagicHeader arm
DecodeMagicHeader(state, src) ==
    IF Len(src) < Len(MAGIC_HEADER)
    THEN Arm(state, src, NoneRet, FALSE)
    ELSE IF Take(src, Len(MAGIC_HEADER)) = MAGIC_HEADER
         THEN Arm(StPayloadLen, advance(src, Len(MAGIC_HEADER)), NoneRet, TRUE)
         ELSE Arm(state, advance(src, 1), NoneRet, TRUE)

\* variant of the PayloadLen arm that also rejects a length equal to the limit
DecodePayloadLen_strict(state, src) ==
    IF Len(src) < 2
    THEN Arm(state, src, NoneRet, FALSE)
    ELSE LET length == get_u16(src)
             rest == advance(src, 2)
         IN IF length >= max_payload_len
            THEN Arm(StMagicHeader, rest, StatusErr("MessageTooLarge"), FALSE)
            ELSE Arm(StRequestCode(length), rest, NoneRet, TRUE)

\* DecodeState::PayloadLen arm
DecodePayloadLen(state, src) ==
    IF Len(src) < 2
    THEN Arm(state, src, NoneRet, FALSE)
    ELSE LET length == get_u16(src)
             rest == advance(src, 2)
         IN IF length > max_payload_len
            THEN Arm(StMagicHeader, rest, StatusErr("MessageTooLarge"), FALSE)
            ELSE Arm(StRequestCode(length), rest, NoneRet, TRUE)

\* variant of the codes 1, 2, 3 that does not look at the length
NoPayloadRequest_lenient(name, length, rest) ==
    Arm(StMagicHeader, rest, RequestCode(name, <<>>), FALSE)

\* variant of the codes 1, 2, 3 that skips the declared payload on an error
NoPayloadRequest_skip(name, length, rest) ==
    IF length = 0
    THEN Arm(StMagicHeader, rest, RequestCode(name, <<>>), FALSE)
    ELSE Arm(StMagicHeader, SubSeq(rest, length + 1, Len(rest)),
             StatusErr("NonEmptyBuffer"), FALSE)

\* the codes 1, 2, 3: a request without payload
NoPayloadRequest(name, length, rest) ==
    IF length = 0
    THEN Arm(StMagicHeader, rest, RequestCode(name, <<>>), FALSE)
    ELSE Arm(StMagicHeader, rest, StatusErr("NonEmptyBuffer"), FALSE)

\* DecodeState::RequestCode { length } arm
DecodeRequestCode(state, src) ==
    IF Len(src) < 2
    THEN Arm(state, src, NoneRet, FALSE)
    ELSE LET length == state.length
             code == get_u16(src)
             rest == advance(src, 2)
         IN CASE code = 1 -> NoPayloadRequest("Ping", length, rest)
              [] code = 2 -> NoPayloadRequest("GetStats", length, rest)
              [] code = 3 -> NoPayloadRequest("ResetStats", length, rest)
              [] code = 4 ->
                   IF length = 0
                   THEN Arm(StMagicHeader, rest, StatusErr("EmptyBuffer"), FALSE)
                   ELSE Arm(StPayload(length), rest, NoneRet, TRUE)
              [] OTHER ->
                   Arm(StMagicHeader, rest, StatusErr("UnsupportedRequestType"), FALSE)

\* variant of the Payload arm that splits off everything buffered (src.split())
DecodePayload_split(state, src) ==
    IF Len(src) < state.length
    THEN Arm(state, src, NoneRet, FALSE)
    ELSE Arm(StMagicHeader, <<>>, RequestCode("Compress", src), FALSE)

\* DecodeState::Payload { length } arm
DecodePayload(state, src) ==
    IF Len(src) < state.length
    THEN Arm(state, src, NoneRet, FALSE)
    ELSE Arm(StMagicHeader, advance(src, state.length),
             RequestCode("Compress", Take(src, state.length)), FALSE)

\* one match arm of decode, chosen by self.state
DecodeArm(state, src) ==
    CASE state.name = "MagicHeader" -> DecodeMagicHeader(state, src)
      [] state.name = "PayloadLen" -> DecodePayloadLen(state, src)
      [] state.name = "RequestCode" -> DecodeRequestCode(state, src)
      [] state.name = "Payload" -> DecodePayload(state, src)

\* PacketCodec::decode: the arms chained by their recursive calls
RECURSIVE decode(_, _)
decode(state, src) ==
    LET r == DecodeArm(state, src)
    IN IF r.again THEN decode(r.state, r.src) ELSE r

\* decode called again and again until it returns None: the outcomes
\* emitted, the final state and the unconsumed remainder
RECURSIVE DecodeAll(_, _, _)
DecodeAll(state, src, outs) ==
    LET r == decode(state, src)
    IN IF r.ret = NoneRet
       THEN [state |-> r.state, src |-> r.src, outs |-> outs]
       ELSE DecodeAll(r.state, r.src, Append(outs, r.ret))

\* ------------------------------------------------------------------------
\* packet.rs: PacketCodec::encode
\* ------------------------------------------------------------------------
\* the status code written for a StatusCode
status_code(item) ==
    CASE item.code = "Ok" -> 0
      [] item.code = "UnknownError" -> 1
      [] item.code = "MessageTooLarge" -> 2
      [] item.code = "UnsupportedRequestType" -> 3
      [] item.code = "EmptyBuffer" -> 33
      [] item.code = "NonEmptyBuffer" -> 34
      [] item.code = "NonAscii" -> 35
      [] item.code = "NonAlphabetic" -> 36
      [] item.code = "NonLowerCase" -> 37
      [] item.code = "IoError" -> 1

\* variant of encode that writes the status code before the payload length
encode_swapped(item) ==
    LET payload_len == IF item.code = "Ok" THEN Len(item.payload) ELSE 0
        payload == IF item.code = "Ok" THEN item.payload ELSE <<>>
    IN MAGIC_HEADER \o put_u16(status_code(item)) \o put_u16(payload_len) \o payload

\* PacketCodec::encode: magic, payload length, status code, payload of Ok
encode(item) ==
    LET payload_len == IF item.code = "Ok" THEN Len(item.payload) ELSE 0
        payload == IF item.code = "Ok" THEN item.payload ELSE <<>>
    IN MAGIC_HEADER \o put_u16(payload_len) \o put_u16(status_code(item)) \o payload

\* ------------------------------------------------------------------------
\* PacketCodec statistics: get_stats / reset_stats are called by main.rs,
\* their code is not in packet.rs; modelled from the specification (every
\* byte the decoder consumes counts as received, every byte the encoder
\* writes counts as sent)
\* ------------------------------------------------------------------------
\* PacketCodec::new_with_max_payload
NewCodec == [state |-> StMagicHeader, received |-> 0, sent |-> 0]

\* PacketCodec::get_stats
codec_get_stats(self) == <<self.received, self.sent>>

\* PacketCodec::reset_stats
codec_reset_stats(self) == [self EXCEPT !.received = 0, !.sent = 0]

\* the decoder consumed n bytes
CountReceived(self, n) == [self EXCEPT !.received = @ + n]

\* the encoder wrote n bytes
CountSent(self, n) == [self EXCEPT !.sent = @ + n]

\* ------------------------------------------------------------------------
\* compress.rs: Compressor
\* ------------------------------------------------------------------------
\* Compressor::new
NewCompressor == [before |-> 0, after |-> 0]

\* Compressor::get_stats
get_stats(self) == <<self.before, self.after>>

\* Compressor::reset_stats
reset_stats(self) == [before |-> 0, after |-> 0]

\* count.to_string(): the ASCII decimal digits of count
RECURSIVE to_string(_)
to_string(count) ==
    IF count < 10 THEN <<48 + count>>
    ELSE Append(to_string(count \div 10), 48 + (count % 10))

\* variant of write_label that compares with <= instead of <
write_label_le(letter, count, buffer) ==
    LET label == to_string(count)
        length == Len(label) + 1
    IN IF length <= count
       THEN [buffer |-> [i \in 1..Len(buffer) |->
                            IF i <= Len(label) THEN label[i]
                            ELSE IF i = Len(label) + 1 THEN letter
                            ELSE buffer[i]],
             written |-> length]
       ELSE [buffer |-> [i \in 1..Len(buffer) |->
                            IF i <= count THEN letter ELSE buffer[i]],
             written |-> count]

\* variant of write_label that labels a single letter too ("1a") where the
\* slice has room behind the label
write_label_single(letter, count, buffer) ==
    LET label == to_string(count)
        length == Len(label) + 1
    IN IF length < count \/ (count = 1 /\ Len(buffer) > length)
       THEN [buffer |-> [i \in 1..Len(buffer) |->
                            IF i <= Len(label) THEN label[i]
                            ELSE IF i = Len(label) + 1 THEN letter
                            ELSE buffer[i]],
             written |-> length]
       ELSE [buffer |-> [i \in 1..Len(buffer) |->
                            IF i <= count THEN letter ELSE buffer[i]],
             written |-> count]

\* Compressor::write_label on the slice buffer[end..]: the slice after the
\* write and the number of bytes written
write_label(letter, count, buffer) ==
    LET label == to_string(count)
        length == Len(label) + 1
    IN IF length < count
       THEN [buffer |-> [i \in 1..Len(buffer) |->
                            IF i <= Len(label) THEN label[i]
                            ELSE IF i = Len(label) + 1 THEN letter
                            ELSE buffer[i]],
             written |-> length]
       ELSE [buffer |-> [i \in 1..Len(buffer) |->
                            IF i <= count THEN letter ELSE buffer[i]],
             written |-> count]

\* buffer with the slice buffer[end..] replaced
WithSlice(buffer, end, slice) == Take(buffer, end) \o slice

is_ascii(current) == current < 128
is_ascii_alphabetic(current) ==
    (65 <= current /\ current <= 90) \/ (97 <= current /\ current <= 122)
\* variant of is_ascii_lowercase that lets uppercase letters through
is_ascii_lowercase_loose(current) ==
    (65 <= current /\ current <= 90) \/ (97 <= current /\ current <= 122)

is_ascii_lowercase(current) == 97 <= current /\ current <= 122

\* the stats update at the end of a successful compress
\* variant that adds the two lengths to the wrong counters
UpdateStats_swapped(self, length, end) ==
    [before |-> self.before + end, after |-> self.after + length]

UpdateStats(self, length, end) ==
    [before |-> self.before + length, after |-> self.after + end]

\* variant of the scan loop that starts the count of a new run at 0
RECURSIVE CompressLoop_zero(_, _, _, _, _, _)
CompressLoop_zero(self, buffer, i, working, count, end) ==
    IF i > Len(buffer)
    THEN LET w == write_label(working, count, advance(buffer, end))
             last == end + w.written
         IN [self |-> UpdateStats(self, Len(buffer), last),
             ret |-> StatusOk(Take(WithSlice(buffer, end, w.buffer), last))]
    ELSE LET current == buffer[i]
         IN IF ~is_ascii(current)
            THEN [self |-> self, ret |-> StatusErr("NonAscii")]
            ELSE IF ~is_ascii_alphabetic(current)
            THEN [self |-> self, ret |-> StatusErr("NonAlphabetic")]
            ELSE IF ~is_ascii_lowercase(current)
            THEN [self |-> self, ret |-> StatusErr("NonLowerCase")]
            ELSE IF current = working
            THEN CompressLoop_zero(self, buffer, i + 1, working, count + 1, end)
            ELSE LET w == write_label(working, count, advance(buffer, end))
                 IN CompressLoop_zero(self, WithSlice(buffer, end, w.buffer),
                                      i + 1, current, 0, end + w.written)

\* the scan loop of compress from index i on (i counts from 1); the result
\* is the compressor after the call and the value returned
RECURSIVE CompressLoop(_, _, _, _, _, _)
CompressLoop(self, buffer, i, working, count, end) ==
    IF i > Len(buffer)
    THEN LET w == write_label(working, count, advance(buffer, end))
             last == end + w.written
         IN [self |-> UpdateStats(self, Len(buffer), last),
             ret |-> StatusOk(Take(WithSlice(buffer, end, w.buffer), last))]
    ELSE LET current == buffer[i]
         IN IF ~is_ascii(current)
            THEN [self |-> self, ret |-> StatusErr("NonAscii")]
            ELSE IF ~is_ascii_alphabetic(current)
            THEN [self |-> self, ret |-> StatusErr("NonAlphabetic")]
            ELSE IF ~is_ascii_lowercase(current)
            THEN [self |-> self, ret |-> StatusErr("NonLowerCase")]
            ELSE IF current = working
            THEN CompressLoop(self, buffer, i + 1, working, count + 1, end)
            ELSE LET w == write_label(working, count, advance(buffer, end))
                 IN CompressLoop(self, WithSlice(buffer, end, w.buffer),
                                 i + 1, current, 1, end + w.written)

\* variant of compress that counts the input before it is validated
compress_count_first(self, buffer) ==
    IF buffer = <<>>
    THEN [self |-> self, ret |-> StatusErr("EmptyBuffer")]
    ELSE LET r == CompressLoop([self EXCEPT !.before = @ + Len(buffer)],
                               buffer, 1, buffer[1], 0, 0)
         IN IF r.ret.ok
            THEN [self |-> [r.self EXCEPT !.before = @ - Len(buffer)], ret |-> r.ret]
            ELSE r

\* variant of compress that looks for the gravest error of the whole buffer
\* before it scans: any non-ASCII byte first, then any non-letter
compress_gravest(self, buffer) ==
    IF buffer = <<>>
    THEN [self |-> self, ret |-> StatusErr("EmptyBuffer")]
    ELSE IF \E i \in 1..Len(buffer) : ~is_ascii(buffer[i])
    THEN [self |-> self, ret |-> StatusErr("NonAscii")]
    ELSE IF \E i \in 1..Len(buffer) : ~is_ascii_alphabetic(buffer[i])
    THEN [self |-> self, ret |-> StatusErr("NonAlphabetic")]
    ELSE CompressLoop(self, buffer, 1, buffer[1], 0, 0)

\* Compressor::compress
compress(self, buffer) ==
    IF buffer = <<>>
    THEN [self |-> self, ret |-> StatusErr("EmptyBuffer")]
    ELSE CompressLoop(self, buffer, 1, buffer[1], 0, 0)

\* ------------------------------------------------------------------------
\* main.rs: the GetStats body
\* ------------------------------------------------------------------------
\* a usize counter as four 16-bit limbs, least significant first
Limb == 256 * 256

\* the usize value of a small natural number
Wide(n) == <<n % Limb, (n \div Limb) % Limb, 0, 0>>

\* a + b on usize
usize_add(a, b) ==
    LET s1 == a[1] + b[1]
        s2 == a[2] + b[2] + (s1 \div Limb)
        s3 == a[3] + b[3] + (s2 \div Limb)
        s4 == a[4] + b[4] + (s3 \div Limb)
    IN <<s1 % Limb, s2 % Limb, s3 % Limb, s4 % Limb>>

\* variant of the cast that saturates at u32::MAX
as_u32_saturating(x) ==
    IF x[3] # 0 \/ x[4] # 0 THEN <<Limb - 1, Limb - 1>> ELSE <<x[1], x[2]>>

\* x as u32: the low 32 bits
as_u32(x) == <<x[1], x[2]>>

\* buffer.put_u32(v): big-endian bytes
put_u32(v) == <<v[2] \div 256, v[2] % 256, v[1] \div 256, v[1] % 256>>

\* f32 values are m * 2^(-e) with a 24-bit significand 2^23 <= m < 2^24;
\* the operands modelled are below 128, where "as f32" is exact
TwoTo23 == 8388608
TwoTo24 == 16777216

RECURSIVE Pow2(_)
Pow2(n) == IF n = 0 THEN 1 ELSE 2 * Pow2(n - 1)

\* n / d rounded to the nearest integer, ties to even
RoundHalfEven(n, d) ==
    LET q == n \div d
        r == n % d
    IN IF 2 * r > d \/ (2 * r = d /\ q % 2 = 1) THEN q + 1 ELSE q

\* the least e with a * 2^e >= 2^23 * b
RECURSIVE Normalize(_, _, _)
Normalize(x, b, e) ==
    IF x >= TwoTo23 * b THEN [x |-> x, e |-> e] ELSE Normalize(2 * x, b, e + 1)

\* (a as f32) / (b as f32), correctly rounded
f32_div(a, b) ==
    LET n == Normalize(a, b, 0)
        m == RoundHalfEven(n.x, b)
    IN IF m = TwoTo24 THEN [m |-> TwoTo23, e |-> n.e - 1] ELSE [m |-> m, e |-> n.e]

\* x * 100.0, correctly rounded
f32_mul100(x) ==
    LET p == x.m * 100
        s == IF p < Pow2(30) THEN 6 ELSE 7
        m == RoundHalfEven(p, Pow2(s))
    IN IF m = TwoTo24 THEN [m |-> TwoTo23, e |-> x.e - s - 1]
       ELSE [m |-> m, e |-> x.e - s]

\* x as u8: truncated toward zero, at most 255
f32_as_u8(x) ==
    IF x.e > 30 THEN 0
    ELSE IF x.e < 0 THEN 255
    ELSE LET t == x.m \div Pow2(x.e) IN IF t > 255 THEN 255 ELSE t

\* variant of the ratio that reports 100 when nothing was compressed
percent_full(before, after) ==
    IF before = 0 \/ after = 0 THEN 100
    ELSE f32_as_u8(f32_mul100(f32_div(after, before)))

\* the compression ratio byte
percent(before, after) ==
    IF before = 0 \/ after = 0 THEN 0
    ELSE f32_as_u8(f32_mul100(f32_div(after, before)))

\* the 9-byte body: received (global plus the codec's own), sent, ratio
StatsBody(stats_received, received, stats_sent, before, after) ==
    put_u32(as_u32(usize_add(stats_received, received)))
        \o put_u32(as_u32(stats_sent))
        \o <<percent(before, after)>>

\* ------------------------------------------------------------------------
\* Request packets as the clients build them (integration_tests.rs,
\* transceive_packet): magic, payload length, request code, payload
\* ------------------------------------------------------------------------
packet(length, request, payload) ==
    MAGIC_HEADER \o put_u16(length) \o put_u16(request) \o payload

PingPacket == packet(0, 1, <<>>)
GetStatsPacket == packet(0, 2, <<>>)
ResetStatsPacket == packet(0, 3, <<>>)

\* ------------------------------------------------------------------------
\* Variables
\* ------------------------------------------------------------------------
VARIABLES
    \* SpecDecode: one decoder fed a byte stream chunk by chunk
    dStream,    \* the whole byte stream
    dGarbage,   \* length of the garbage prefix of dStream
    dPacket,    \* index in DecodeMenu of the packet that follows the prefix
    dFed,       \* number of bytes of dStream appended to the buffer so far
    dChunks,    \* number of chunks appended so far (counted up to 2)
    dSrc,       \* the input buffer (src of decode)
    dState,     \* PacketCodec.state
    dOuts,      \* the outcomes decode has returned, in order
    dBusy,      \* TRUE while decode is being called on the current buffer
    \* SpecBody: the GetStats body formatter
    bStats,     \* the global Stats read by the handler (received, sent: usize limbs)
    bReceived,  \* the codec's own received count (usize limbs)
    bBody,      \* the body written, <<>> before the handler ran
    \* SpecCompress: one Compressor called on a payload
    kInput,     \* the payload handed to compress
    kBefore,    \* the Compressor before the call
    kSelf,      \* the Compressor after the call
    kRet,       \* what compress returned, NoneRet before the call
    \* SpecEncode: one status encoded into a write buffer
    eItem,      \* the StatusCode handed to encode
    eDst,       \* the write buffer before the call
    eOut,       \* the write buffer after the call, <<>> before
    \* Spec: the server
    cliEnds,    \* per connection: the end offset, in the client's byte stream, of each packet written
    cliStray,   \* per connection: the client wrote a packet whose payload the decoder leaves behind
    wire,       \* per connection: bytes written by the client, not yet read by the server
    rbuf,       \* per connection: the read buffer of Framed
    readable,   \* per connection: Framed's is_readable flag
    codec,      \* per connection: the PacketCodec (state, received, sent)
    compressor, \* per connection: the Compressor (before, after)
    pc,         \* per connection: where the task is in its loop
    item,       \* per connection: the decoded item being handled
    wbuf,       \* per connection: the status being sent
    stats,      \* the global Stats
    lock,       \* the task holding the Stats mutex, 0 when free
    outcomes,   \* per connection: everything stream.next() has returned
    responses,  \* per connection: every status whose packet was written to the client
    flushMark,  \* per connection: stream position and response count at its last flush
    resetMark,  \* per connection: the same marks as of the last ResetStats
    closed,     \* per connection: the client has shut down its sending side
    eof,        \* per connection: Framed's eof flag, a read has returned 0 bytes
    wfailed,    \* per connection: a write of stream.send has failed
    cliSent,    \* per connection: the packets the client has written, in order
    faults,     \* number of socket errors so far
    \* SpecScan: one call of compress, one loop iteration per step
    zInput,     \* the bytes of the buffer when compress was called
    zBuffer,    \* buffer
    zI,         \* i, the index of the loop (the bytes before it have been scanned)
    zWorking,   \* working
    zCount,     \* count
    zEnd,       \* end
    zWrite,     \* the last call of write_label: where it wrote and how much
    zSelf,      \* the Compressor
    zRet,       \* the value compress returned, NoneRet while it runs
    zPc,        \* "entry" before the init state, "loop" in the for loop, "done" after return
    \* SpecFlush: the server with the flush block taken statement by statement
    snap        \* per connection: the local stats read at the top of the flush block

decVars == <<dStream, dGarbage, dPacket, dFed, dChunks, dSrc, dState, dOuts, dBusy>>

bodyVars == <<bStats, bReceived, bBody>>

cmpVars == <<kInput, kBefore, kSelf, kRet>>

encVars == <<eItem, eDst, eOut>>

srvVars == <<cliEnds, cliStray, wire, rbuf, readable, codec, compressor,
             pc, item, wbuf, stats, lock, outcomes, responses, flushMark, resetMark>>

ioVars == <<closed, eof, wfailed, cliSent, faults>>

scanVars == <<zInput, zBuffer, zI, zWorking, zCount, zEnd, zWrite, zSelf, zRet, zPc>>

flushVars == <<snap>>

vars == <<decVars, bodyVars, cmpVars, encVars, srvVars, ioVars, scanVars, flushVars>>

\* the connections
Conns == 1..NConn

\* the variables of each part before anything happened
DecodeIdle ==
    /\ dStream = <<>>
    /\ dGarbage = 0
    /\ dPacket = 1
    /\ dFed = 0
    /\ dChunks = 0
    /\ dSrc = <<>>
    /\ dState = StMagicHeader
    /\ dOuts = <<>>
    /\ dBusy = FALSE

BodyIdle ==
    /\ bStats = [received |-> Wide(0), sent |-> Wide(0), before |-> 0, after |-> 0]
    /\ bReceived = Wide(0)
    /\ bBody = <<>>

CompressIdle ==
    /\ kInput = <<>>
    /\ kBefore = NewCompressor
    /\ kSelf = NewCompressor
    /\ kRet = NoneRet

EncodeIdle ==
    /\ eItem = NoneRet
    /\ eDst = <<>>
    /\ eOut = <<>>

\* no write_label call yet
NoWrite == [at |-> 0, written |-> 0, scanned |-> 0]

ScanIdle ==
    /\ zInput = <<>>
    /\ zBuffer = <<>>
    /\ zI = 0
    /\ zWorking = 0
    /\ zCount = 0
    /\ zEnd = 0
    /\ zWrite = NoWrite
    /\ zSelf = NewCompressor
    /\ zRet = NoneRet
    /\ zPc = "idle"

\* local stats read when there was nothing to read
ZeroSnap == [received |-> 0, sent |-> 0, before |-> 0, after |-> 0]

FlushIdle == snap = [c \in Conns |-> ZeroSnap]

ZeroMark == [pos |-> 0, idx |-> 0]

ServerIdle ==
    /\ cliEnds = [c \in Conns |-> <<>>]
    /\ cliStray = [c \in Conns |-> FALSE]
    /\ wire = [c \in Conns |-> <<>>]
    /\ rbuf = [c \in Conns |-> <<>>]
    /\ readable = [c \in Conns |-> FALSE]
    /\ codec = [c \in Conns |-> NewCodec]
    /\ compressor = [c \in Conns |-> NewCompressor]
    /\ pc = [c \in Conns |-> "flush"]
    /\ item = [c \in Conns |-> NoneRet]
    /\ wbuf = [c \in Conns |-> NoneRet]
    /\ stats = [received |-> 0, sent |-> 0, before |-> 0, after |-> 0]
    /\ lock = 0
    /\ outcomes = [c \in Conns |-> <<>>]
    /\ responses = [c \in Conns |-> <<>>]
    /\ flushMark = [c \in Conns |-> ZeroMark]
    /\ resetMark = [c \in Conns |-> ZeroMark]
    /\ closed = [c \in Conns |-> FALSE]
    /\ eof = [c \in Conns |-> FALSE]
    /\ wfailed = [c \in Conns |-> FALSE]
    /\ cliSent = [c \in Conns |-> <<>>]
    /\ faults = 0

\* ------------------------------------------------------------------------
\* SpecDecode
\* ------------------------------------------------------------------------
\* bytes garbage is made of: the letters of the magic header
GarbageBytes == {83, 84, 82, 89}

RECURSIVE SeqsUpTo(_, _)
SeqsUpTo(S, n) ==
    IF n = 0 THEN {<<>>}
    ELSE LET shorter == SeqsUpTo(S, n - 1)
         IN shorter \cup {Append(s, b) : s \in {t \in shorter : Len(t) = n - 1}, b \in S}

ContainsMagic(s) ==
    \E i \in 1..(Len(s) - 3) : SubSeq(s, i, i + 3) = MAGIC_HEADER

\* byte prefixes that do not contain "STRY"
Garbage == {s \in SeqsUpTo(GarbageBytes, MaxGarbage) : ~ContainsMagic(s)}

\* the packets the stream is built from, with the outcomes the protocol
\* tables give for each (wellFormed: the header matches the payload carried
\* and the packet is answered by exactly one outcome)
DecodeMenu == <<
    [bytes |-> PingPacket, wellFormed |-> TRUE,
     expect |-> RequestCode("Ping", <<>>)],
    [bytes |-> GetStatsPacket, wellFormed |-> TRUE,
     expect |-> RequestCode("GetStats", <<>>)],
    [bytes |-> ResetStatsPacket, wellFormed |-> TRUE,
     expect |-> RequestCode("ResetStats", <<>>)],
    [bytes |-> packet(2, 4, <<97, 98>>), wellFormed |-> TRUE,
     expect |-> RequestCode("Compress", <<97, 98>>)],
    [bytes |-> packet(4, 4, MAGIC_HEADER), wellFormed |-> TRUE,
     expect |-> RequestCode("Compress", MAGIC_HEADER)],
    [bytes |-> packet(0, 4, <<>>), wellFormed |-> TRUE,
     expect |-> StatusErr("EmptyBuffer")],
    [bytes |-> packet(0, 0, <<>>), wellFormed |-> TRUE,
     expect |-> StatusErr("UnsupportedRequestType")],
    [bytes |-> packet(1, 1, <<97>>), wellFormed |-> FALSE,
     expect |-> StatusErr("NonEmptyBuffer")],
    [bytes |-> packet(8, 2, PingPacket), wellFormed |-> FALSE,
     expect |-> StatusErr("NonEmptyBuffer")],
    [bytes |-> packet(max_payload_len + 1, 4, <<97>>), wellFormed |-> FALSE,
     expect |-> StatusErr("MessageTooLarge")],
    [bytes |-> packet(max_payload_len, 3, <<>>), wellFormed |-> FALSE,
     expect |-> StatusErr("NonEmptyBuffer")],
    [bytes |-> packet(3, 5, <<97, 98, 99>>), wellFormed |-> FALSE,
     expect |-> StatusErr("UnsupportedRequestType")],
    [bytes |-> packet(max_payload_len + 1, 1, <<>>), wellFormed |-> FALSE,
     expect |-> StatusErr("MessageTooLarge")] >>

\* what may follow the first packet when there is no garbage prefix
DecodeSuffix == {<<>>, PingPacket, packet(2, 4, <<97, 98>>), <<83, 84>>}

InitDecode ==
    /\ dPacket \in 1..Len(DecodeMenu)
    /\ \E g \in Garbage, t \in DecodeSuffix :
          /\ (g = <<>> \/ t = <<>>)
          /\ dGarbage = Len(g)
          /\ dStream = g \o DecodeMenu[dPacket].bytes \o t
    /\ dFed = 0
    /\ dChunks = 0
    /\ dSrc = <<>>
    /\ dState = StMagicHeader
    /\ dOuts = <<>>
    /\ dBusy = FALSE
    /\ BodyIdle
    /\ CompressIdle
    /\ EncodeIdle
    /\ ServerIdle
    /\ ScanIdle
    /\ FlushIdle

\* the socket delivers the next n bytes: they are appended to the buffer
Feed(n) ==
    /\ ~dBusy
    /\ dFed + n <= Len(dStream)
    /\ dSrc' = dSrc \o SubSeq(dStream, dFed + 1, dFed + n)
    /\ dFed' = dFed + n
    /\ dChunks' = IF dChunks < 2 THEN dChunks + 1 ELSE dChunks
    /\ dBusy' = TRUE
    /\ UNCHANGED <<dStream, dGarbage, dPacket, dState, dOuts, bodyVars, cmpVars, encVars, srvVars, ioVars, scanVars, flushVars>>

\* one match arm of decode runs; a returned outcome is recorded and decode
\* is called again, None ends the calls until more bytes arrive
DecodeStep ==
    /\ dBusy
    /\ LET r == DecodeArm(dState, dSrc)
       IN /\ dState' = r.state
          /\ dSrc' = r.src
          /\ dOuts' = IF r.ret = NoneRet THEN dOuts ELSE Append(dOuts, r.ret)
          /\ dBusy' = (r.again \/ r.ret # NoneRet)
    /\ UNCHANGED <<dStream, dGarbage, dPacket, dFed, dChunks, bodyVars, cmpVars, encVars, srvVars, ioVars, scanVars, flushVars>>

NextDecode ==
    \/ \E n \in 1..Len(dStream) : Feed(n)
    \/ DecodeStep

SpecDecode == InitDecode /\ [][NextDecode]_vars

\* C1: chunk independence of the decoder. Whatever chunks a byte sequence
\* was appended in (decode called after each append until it returns None),
\* the outcomes emitted, the decoder state and the unconsumed remainder are
\* those of the same bytes appended as one single chunk.
ChunkIndependence ==
    ~dBusy =>
        [state |-> dState, src |-> dSrc, outs |-> dOuts]
            = DecodeAll(StMagicHeader, Take(dStream, dFed), <<>>)

\* C1 witness: a stream of two packets was appended in several chunks and
\* both outcomes have been emitted
ChunkIndependenceWitness ==
    /\ ~dBusy
    /\ dFed = Len(dStream)
    /\ dChunks >= 2
    /\ Len(dOuts) = 2
    /\ dOuts[2].code = "Compress"

\* C2: resynchronization. In MagicHeader with at least 4 buffered bytes that
\* are not the magic, one arm of decode discards exactly one byte, stays in
\* MagicHeader and emits nothing; so for a prefix without "STRY" followed by
\* a well-formed packet nothing is emitted for the prefix and, once the
\* packet is in, exactly the outcome of that packet has been emitted.
ResyncArm ==
    (/\ dBusy
     /\ dState = StMagicHeader
     /\ Len(dSrc) >= Len(MAGIC_HEADER)
     /\ Take(dSrc, Len(MAGIC_HEADER)) # MAGIC_HEADER)
    => (/\ dSrc' = Tail(dSrc)
        /\ dState' = StMagicHeader
        /\ dOuts' = dOuts)

ResyncPacket ==
    DecodeMenu[dPacket].wellFormed =>
        /\ dFed <= dGarbage => dOuts = <<>>
        /\ (~dBusy /\ dFed = dGarbage + Len(DecodeMenu[dPacket].bytes)) =>
              /\ dOuts = <<DecodeMenu[dPacket].expect>>
              /\ dState = StMagicHeader
              /\ dSrc = <<>>

Resync == []ResyncPacket /\ [][ResyncArm]_vars

\* C2 witness: the prefix "STR", a partial magic, was discarded byte by byte
\* and the packet behind it has been decoded
ResyncWitness ==
    /\ dGarbage >= 3
    /\ Take(dStream, 3) = <<83, 84, 82>>
    /\ DecodeMenu[dPacket].wellFormed
    /\ ~dBusy
    /\ dFed = Len(dStream)
    /\ dOuts = <<DecodeMenu[dPacket].expect>>

\* ------------------------------------------------------------------------
\* SpecBody: the GetStats handler's formatting applied to drawn counters
\* ------------------------------------------------------------------------
\* 2^32 - 8, 2^32 - 1 and 2^32 + 5 as usize
NearWrap == {<<Limb - 8, Limb - 1, 0, 0>>, <<Limb - 1, Limb - 1, 0, 0>>,
             <<5, 0, 1, 0>>}

\* the least output compress can give for n input bytes: one run
MinOut(n) == IF n <= 2 THEN n ELSE Len(to_string(n)) + 1

\* before/after pairs the compressor counters can hold
CompressorPairs ==
    {<<0, 0>>} \cup
    {p \in (1..MaxBefore) \X (1..MaxBefore) : MinOut(p[1]) <= p[2] /\ p[2] <= p[1]}

InitBody ==
    /\ \E r \in {Wide(135)} \cup NearWrap,
          t \in {Wide(116)} \cup NearWrap,
          p \in CompressorPairs :
          bStats = [received |-> r, sent |-> t, before |-> p[1], after |-> p[2]]
    /\ bReceived = Wide(8)
    /\ bBody = <<>>
    /\ DecodeIdle
    /\ CompressIdle
    /\ EncodeIdle
    /\ ServerIdle
    /\ ScanIdle
    /\ FlushIdle

\* RequestCode::GetStats: the body is put together from the counters
FormatBody ==
    /\ bBody = <<>>
    /\ bBody' = StatsBody(bStats.received, bReceived, bStats.sent,
                          bStats.before, bStats.after)
    /\ UNCHANGED <<bStats, bReceived, decVars, cmpVars, encVars, srvVars, ioVars, scanVars, flushVars>>

NextBody == FormatBody

SpecBody == InitBody /\ [][NextBody]_vars

\* the value of four big-endian bytes, as two 16-bit limbs
FieldLimbs(body, at) ==
    <<body[at + 2] * 256 + body[at + 3], body[at] * 256 + body[at + 1]>>

\* a usize above u32::MAX
ExceedsU32(x) == x[3] # 0 \/ x[4] # 0

U32Max == <<Limb - 1, Limb - 1>>

\* C8 as stated: the received and sent fields saturate, a counter above
\* 2^32 - 1 is reported as 2^32 - 1 and any other counter as itself.
FieldsSaturate ==
    bBody # <<>> =>
        LET received == usize_add(bStats.received, bReceived)
        IN /\ FieldLimbs(bBody, 1) =
                 IF ExceedsU32(received) THEN U32Max ELSE <<received[1], received[2]>>
           /\ FieldLimbs(bBody, 5) =
                 IF ExceedsU32(bStats.sent) THEN U32Max
                 ELSE <<bStats.sent[1], bStats.sent[2]>>

\* C8 amended: the received and sent fields are the counters modulo 2^32
\* (the low 32 bits, big-endian); they wrap and do not saturate.
FieldsWrap ==
    bBody # <<>> =>
        LET received == usize_add(bStats.received, bReceived)
        IN /\ Len(bBody) = 9
           /\ FieldLimbs(bBody, 1) = <<received[1], received[2]>>
           /\ FieldLimbs(bBody, 5) = <<bStats.sent[1], bStats.sent[2]>>
           /\ \A i \in 1..8 : bBody[i] \in 0..255

\* C8 witness: a body was written while received, with the request itself
\* added, had just passed 2^32 - 1 and sent was above it
FieldsWrapWitness ==
    /\ bBody # <<>>
    /\ ~ExceedsU32(bStats.received)
    /\ ExceedsU32(usize_add(bStats.received, bReceived))
    /\ ExceedsU32(bStats.sent)
    /\ FieldLimbs(bBody, 1) = <<0, 0>>

\* C9: the ratio byte is floor(after * 100 / before) when before > 0 and 0
\* when before = 0, and lies in 0..100.
RatioIsFloor ==
    bBody # <<>> =>
        /\ bBody[9] = IF bStats.before = 0 THEN 0
                      ELSE (bStats.after * 100) \div bStats.before
        /\ bBody[9] \in 0..100

\* ------------------------------------------------------------------------
\* Spec: the server (main.rs) with its clients
\* ------------------------------------------------------------------------
\* the packets a client writes; stray: the payload declared is not consumed
\* with the header and stays in the stream
SendMenu == <<
    [bytes |-> PingPacket, stray |-> FALSE],
    [bytes |-> GetStatsPacket, stray |-> FALSE],
    [bytes |-> ResetStatsPacket, stray |-> FALSE],
    [bytes |-> packet(4, 4, <<97, 97, 97, 98>>), stray |-> FALSE],
    [bytes |-> packet(4, 4, <<97, 97, 97, 66>>), stray |-> FALSE],
    [bytes |-> packet(8, 1, GetStatsPacket), stray |-> TRUE] >>

Init ==
    /\ ServerIdle
    /\ ScanIdle
    /\ FlushIdle
    /\ DecodeIdle
    /\ BodyIdle
    /\ CompressIdle
    /\ EncodeIdle

\* bytes the client of connection c has written
Written(c) == IF cliEnds[c] = <<>> THEN 0 ELSE cliEnds[c][Len(cliEnds[c])]

\* bytes of connection c the decoder has consumed: written by the client and
\* neither on the wire nor in the read buffer
Pos(c) == Written(c) - Len(wire[c]) - Len(rbuf[c])

\* packets written so far on the connections 1..n
RECURSIVE PacketsWritten(_)
PacketsWritten(n) == IF n = 0 THEN 0 ELSE Len(cliEnds[n]) + PacketsWritten(n - 1)

\* a client writes the bytes of one whole packet on its connection
ClientSend(c, p) ==
    /\ PacketsWritten(NConn) < MaxPkts
    /\ ~closed[c]
    /\ wire' = [wire EXCEPT ![c] = @ \o p.bytes]
    /\ cliEnds' = [cliEnds EXCEPT ![c] = Append(@, Written(c) + Len(p.bytes))]
    /\ cliStray' = [cliStray EXCEPT ![c] = @ \/ p.stray]
    /\ cliSent' = [cliSent EXCEPT ![c] = Append(@, p.bytes)]
    /\ UNCHANGED <<rbuf, readable, codec, compressor, pc, item, wbuf, stats, lock,
                   outcomes, responses, flushMark, resetMark, closed, eof, wfailed,
                   faults, decVars, bodyVars, cmpVars, encVars, scanVars, flushVars>>

\* a client writes the k-th packet of SendMenu
ClientWrite(c, k) == ClientSend(c, SendMenu[k])

\* top of the loop: the local stats are added to the global ones and reset,
\* all under the lock
Flush(c) ==
    /\ pc[c] = "flush"
    /\ lock = 0
    /\ LET local == codec_get_stats(codec[c])
           comp == get_stats(compressor[c])
       IN stats' = [received |-> stats.received + local[1],
                    sent |-> stats.sent + local[2],
                    before |-> stats.before + comp[1],
                    after |-> stats.after + comp[2]]
    /\ codec' = [codec EXCEPT ![c] = codec_reset_stats(@)]
    /\ compressor' = [compressor EXCEPT ![c] = reset_stats(@)]
    /\ flushMark' = [flushMark EXCEPT ![c] = [pos |-> Pos(c), idx |-> Len(responses[c])]]
    /\ pc' = [pc EXCEPT ![c] = "next"]
    /\ UNCHANGED <<cliEnds, cliStray, wire, rbuf, readable, item, wbuf, lock,
                   outcomes, responses, resetMark, decVars, bodyVars, cmpVars, encVars, ioVars, scanVars, flushVars>>

\* what one poll of stream.next() does to the buffers (FramedRead::poll_next):
\* decode runs on the read buffer if it is marked readable; when that
\* returns None and the socket has bytes, they are read into the buffer and
\* decode runs again. The read takes all bytes that have arrived; how the
\* bytes are chunked does not change what decode returns (ChunkIndependence).
PollResult(state, buffered, isReadable, arrived) ==
    LET first == IF isReadable THEN decode(state, buffered)
                 ELSE Arm(state, buffered, NoneRet, FALSE)
        reads == first.ret = NoneRet /\ arrived # <<>>
        last == IF reads THEN decode(first.state, first.src \o arrived) ELSE first
    IN [state |-> last.state, src |-> last.src, ret |-> last.ret, reads |-> reads,
        consumed |-> Len(buffered) + (IF reads THEN Len(arrived) ELSE 0) - Len(last.src)]

\* variant of stream.next() that is also polled while the previous response
\* is still being written, which is then dropped
PollNext_eager(c) ==
    /\ pc[c] \in {"next", "send"}
    /\ ~eof[c]
    /\ readable[c] \/ wire[c] # <<>>
    /\ LET r == PollResult(codec[c].state, rbuf[c], readable[c], wire[c])
       IN /\ codec' = [codec EXCEPT ![c] =
                          CountReceived([@ EXCEPT !.state = r.state], r.consumed)]
          /\ rbuf' = [rbuf EXCEPT ![c] = r.src]
          /\ wire' = [wire EXCEPT ![c] = IF r.reads THEN <<>> ELSE @]
          /\ IF r.ret = NoneRet
             THEN /\ readable' = [readable EXCEPT ![c] = FALSE]
                  /\ UNCHANGED <<pc, item, outcomes>>
             ELSE /\ readable' = [readable EXCEPT ![c] = TRUE]
                  /\ item' = [item EXCEPT ![c] = r.ret]
                  /\ outcomes' = [outcomes EXCEPT ![c] = Append(@, r.ret)]
                  /\ pc' = [pc EXCEPT ![c] = "handle"]
    /\ UNCHANGED <<cliEnds, cliStray, compressor, wbuf, stats, lock,
                   responses, flushMark, resetMark, decVars, bodyVars, cmpVars, encVars, ioVars, scanVars, flushVars>>

\* stream.next(): an item or an error is handed to the loop, or the task
\* is left waiting for the socket
PollNext(c) ==
    /\ pc[c] = "next"
    /\ ~eof[c]
    /\ readable[c] \/ wire[c] # <<>>
    /\ LET r == PollResult(codec[c].state, rbuf[c], readable[c], wire[c])
       IN /\ codec' = [codec EXCEPT ![c] =
                          CountReceived([@ EXCEPT !.state = r.state], r.consumed)]
          /\ rbuf' = [rbuf EXCEPT ![c] = r.src]
          /\ wire' = [wire EXCEPT ![c] = IF r.reads THEN <<>> ELSE @]
          /\ IF r.ret = NoneRet
             THEN /\ readable' = [readable EXCEPT ![c] = FALSE]
                  /\ UNCHANGED <<pc, item, outcomes>>
             ELSE /\ readable' = [readable EXCEPT ![c] = TRUE]
                  /\ item' = [item EXCEPT ![c] = r.ret]
                  /\ outcomes' = [outcomes EXCEPT ![c] = Append(@, r.ret)]
                  /\ pc' = [pc EXCEPT ![c] = "handle"]
    /\ UNCHANGED <<cliEnds, cliStray, compressor, wbuf, stats, lock,
                   responses, flushMark, resetMark, decVars, bodyVars, cmpVars, encVars, ioVars, scanVars, flushVars>>

\* stream.send(status): the status is encoded, the task waits for the write
Send(c, cdc, status) ==
    /\ codec' = [codec EXCEPT ![c] = CountSent(cdc, Len(encode(status)))]
    /\ wbuf' = [wbuf EXCEPT ![c] = status]
    /\ pc' = [pc EXCEPT ![c] = "send"]

\* RequestCode::Ping
HandlePing(c) ==
    /\ pc[c] = "handle"
    /\ item[c] = RequestCode("Ping", <<>>)
    /\ Send(c, codec[c], StatusOk(<<>>))
    /\ UNCHANGED <<cliEnds, cliStray, wire, rbuf, readable, compressor, item,
                   stats, lock, outcomes, responses, flushMark, resetMark,
                   decVars, bodyVars, cmpVars, encVars, ioVars, scanVars, flushVars>>

\* variant of the GetStats arm that reports the connection's own codec and
\* compressor counters instead of the global ones
HandleGetStats_local(c) ==
    /\ pc[c] = "handle"
    /\ item[c] = RequestCode("GetStats", <<>>)
    /\ lock = 0
    /\ lock' = c
    /\ LET local == codec_get_stats(codec[c])
           comp == get_stats(compressor[c])
           buffer == StatsBody(Wide(0), Wide(local[1]), Wide(local[2]), comp[1], comp[2])
       IN Send(c, codec[c], StatusOk(buffer))
    /\ UNCHANGED <<cliEnds, cliStray, wire, rbuf, readable, compressor, item,
                   stats, outcomes, responses, flushMark, resetMark, decVars, bodyVars, cmpVars, encVars, ioVars, scanVars, flushVars>>

\* variant of the GetStats arm that forgets the packet just received
HandleGetStats_stale(c) ==
    /\ pc[c] = "handle"
    /\ item[c] = RequestCode("GetStats", <<>>)
    /\ lock = 0
    /\ lock' = c
    /\ LET buffer == StatsBody(Wide(stats.received), Wide(0),
                               Wide(stats.sent), stats.before, stats.after)
       IN Send(c, codec[c], StatusOk(buffer))
    /\ UNCHANGED <<cliEnds, cliStray, wire, rbuf, readable, compressor, item,
                   stats, outcomes, responses, flushMark, resetMark, decVars, bodyVars, cmpVars, encVars, ioVars, scanVars, flushVars>>

\* RequestCode::GetStats: the lock is taken and kept until the arm ends
HandleGetStats(c) ==
    /\ pc[c] = "handle"
    /\ item[c] = RequestCode("GetStats", <<>>)
    /\ lock = 0
    /\ lock' = c
    /\ LET received == codec_get_stats(codec[c])[1]
           buffer == StatsBody(Wide(stats.received), Wide(received),
                               Wide(stats.sent), stats.before, stats.after)
       IN Send(c, codec[c], StatusOk(buffer))
    /\ UNCHANGED <<cliEnds, cliStray, wire, rbuf, readable, compressor, item,
                   stats, outcomes, responses, flushMark, resetMark, decVars, bodyVars, cmpVars, encVars, ioVars, scanVars, flushVars>>

\* variant of the ResetStats arm that leaves the codec's own counters alone
HandleResetStats_keep(c) ==
    /\ pc[c] = "handle"
    /\ item[c] = RequestCode("ResetStats", <<>>)
    /\ lock = 0
    /\ lock' = c
    /\ stats' = [received |-> 0, sent |-> 0, before |-> 0, after |-> 0]
    /\ compressor' = [compressor EXCEPT ![c] = reset_stats(@)]
    /\ Send(c, codec[c], StatusOk(<<>>))
    /\ LET here == [pos |-> Pos(c), idx |-> Len(responses[c])]
       IN /\ resetMark' = [d \in Conns |-> IF d = c THEN here ELSE flushMark[d]]
          /\ flushMark' = [flushMark EXCEPT ![c] = here]
    /\ UNCHANGED <<cliEnds, cliStray, wire, rbuf, readable, item,
                   outcomes, responses, decVars, bodyVars, cmpVars, encVars, ioVars, scanVars, flushVars>>

\* RequestCode::ResetStats: global and local stats are zeroed under the lock
HandleResetStats(c) ==
    /\ pc[c] = "handle"
    /\ item[c] = RequestCode("ResetStats", <<>>)
    /\ lock = 0
    /\ lock' = c
    /\ stats' = [received |-> 0, sent |-> 0, before |-> 0, after |-> 0]
    /\ compressor' = [compressor EXCEPT ![c] = reset_stats(@)]
    /\ Send(c, codec_reset_stats(codec[c]), StatusOk(<<>>))
    /\ LET here == [pos |-> Pos(c), idx |-> Len(responses[c])]
       IN /\ resetMark' = [d \in Conns |-> IF d = c THEN here ELSE flushMark[d]]
          /\ flushMark' = [flushMark EXCEPT ![c] = here]
    /\ UNCHANGED <<cliEnds, cliStray, wire, rbuf, readable, item,
                   outcomes, responses, decVars, bodyVars, cmpVars, encVars, ioVars, scanVars, flushVars>>

\* RequestCode::Compress(payload)
HandleCompress(c) ==
    /\ pc[c] = "handle"
    /\ item[c].ok
    /\ item[c].code = "Compress"
    /\ LET r == compress(compressor[c], item[c].payload)
       IN /\ compressor' = [compressor EXCEPT ![c] = r.self]
          /\ Send(c, codec[c], r.ret)
    /\ UNCHANGED <<cliEnds, cliStray, wire, rbuf, readable, item,
                   stats, lock, outcomes, responses, flushMark, resetMark,
                   decVars, bodyVars, cmpVars, encVars, ioVars, scanVars, flushVars>>

\* variant of the error arm that drops the error without a response
HandleError_drop(c) ==
    /\ pc[c] = "handle"
    /\ ~item[c].ok
    /\ item' = [item EXCEPT ![c] = NoneRet]
    /\ pc' = [pc EXCEPT ![c] = "flush"]
    /\ UNCHANGED <<cliEnds, cliStray, wire, rbuf, readable, codec, compressor, wbuf,
                   stats, lock, outcomes, responses, flushMark, resetMark,
                   decVars, bodyVars, cmpVars, encVars, ioVars, scanVars, flushVars>>

\* variant of the error arm that ends the loop after a parsing error
HandleError_fatal(c) ==
    /\ pc[c] = "handle"
    /\ ~item[c].ok
    /\ item' = [item EXCEPT ![c] = NoneRet]
    /\ pc' = [pc EXCEPT ![c] = "done"]
    /\ UNCHANGED <<cliEnds, cliStray, wire, rbuf, readable, codec, compressor, wbuf,
                   stats, lock, outcomes, responses, flushMark, resetMark,
                   decVars, bodyVars, cmpVars, encVars, ioVars, scanVars, flushVars>>

\* Some(Err(error)): the parsing error is sent back as a status
HandleError(c) ==
    /\ pc[c] = "handle"
    /\ ~item[c].ok
    /\ Send(c, codec[c], item[c])
    /\ UNCHANGED <<cliEnds, cliStray, wire, rbuf, readable, compressor, item,
                   stats, lock, outcomes, responses, flushMark, resetMark,
                   decVars, bodyVars, cmpVars, encVars, ioVars, scanVars, flushVars>>

\* variant of the end of the match arm that keeps the lock guard into the
\* next iteration
WriteDone_hold(c) ==
    /\ pc[c] = "send"
    /\ responses' = [responses EXCEPT ![c] = Append(@, wbuf[c])]
    /\ wbuf' = [wbuf EXCEPT ![c] = NoneRet]
    /\ item' = [item EXCEPT ![c] = NoneRet]
    /\ pc' = [pc EXCEPT ![c] = "flush"]
    /\ UNCHANGED <<cliEnds, cliStray, wire, rbuf, readable, codec, compressor,
                   stats, lock, outcomes, flushMark, resetMark, decVars, bodyVars,
                   cmpVars, encVars, ioVars, scanVars, flushVars>>

\* the write of stream.send completes: the packet is with the client, the
\* match arm ends (dropping the lock guard a handler took) and the loop
\* starts over
WriteDone(c) ==
    /\ pc[c] = "send"
    /\ responses' = [responses EXCEPT ![c] = Append(@, wbuf[c])]
    /\ wbuf' = [wbuf EXCEPT ![c] = NoneRet]
    /\ item' = [item EXCEPT ![c] = NoneRet]
    /\ lock' = IF lock = c THEN 0 ELSE lock
    /\ pc' = [pc EXCEPT ![c] = "flush"]
    /\ UNCHANGED <<cliEnds, cliStray, wire, rbuf, readable, codec, compressor,
                   stats, outcomes, flushMark, resetMark, decVars, bodyVars, cmpVars, encVars, ioVars, scanVars, flushVars>>

Next ==
    \/ \E c \in Conns, k \in 1..Len(SendMenu) : ClientWrite(c, k)
    \/ \E c \in Conns : Flush(c)
    \/ \E c \in Conns : PollNext(c)
    \/ \E c \in Conns : HandlePing(c)
    \/ \E c \in Conns : HandleGetStats(c)
    \/ \E c \in Conns : HandleResetStats(c)
    \/ \E c \in Conns : HandleCompress(c)
    \/ \E c \in Conns : HandleError(c)
    \/ \E c \in Conns : WriteDone(c)

Spec == Init /\ [][Next]_vars

\* ------------------------------------------------------------------------
\* Properties of the server
\* ------------------------------------------------------------------------
\* the task of c has handled everything its client wrote and waits for bytes
Quiescent(c) == pc[c] = "next" /\ ~readable[c] /\ wire[c] = <<>>

\* the value of a 4-byte big-endian field of a body
Field(body, at) ==
    ((body[at] * 256 + body[at + 1]) * 256 + body[at + 2]) * 256 + body[at + 3]

\* the GetStats arm of c has put its body together and is sending it
GetStatsSending(c) ==
    pc[c] = "send" /\ item[c] = RequestCode("GetStats", <<>>)

\* no other connection has had any traffic
Alone(c) == \A d \in Conns \ {c} : cliEnds[d] = <<>>

\* C3 as stated: every request packet gets exactly one response and no
\* response is written without a request packet, whatever the packets are.
OneResponsePerPacket ==
    \A c \in Conns :
        /\ Len(responses[c]) <= Len(cliEnds[c])
        /\ Quiescent(c) => Len(responses[c]) = Len(cliEnds[c])

\* C3 amended: every response answers one decoded outcome and every outcome
\* is answered; on a connection where no packet left payload bytes behind
\* (no code 1/2/3 header with a non-zero length), every request packet,
\* accepted or rejected, gets exactly one response.
OneResponsePerOutcome ==
    \A c \in Conns :
        /\ Len(responses[c]) <= Len(outcomes[c])
        /\ Quiescent(c) => Len(responses[c]) = Len(outcomes[c])
        /\ ~cliStray[c] =>
              /\ Len(outcomes[c]) <= Len(cliEnds[c])
              /\ Quiescent(c) => Len(responses[c]) = Len(cliEnds[c])

\* C3 witness: a connection has answered an accepted request, a compression
\* error and nothing else, and is waiting for more
OneResponsePerOutcomeWitness ==
    \E c \in Conns :
        /\ Quiescent(c)
        /\ ~cliStray[c]
        /\ Len(cliEnds[c]) = 2
        /\ Len(responses[c]) = 2
        /\ \E k \in 1..2 : responses[c][k] = StatusErr("NonLowerCase")
        /\ \E k \in 1..2 : responses[c][k].code = "Ok"

\* the status that answers a decoded outcome
Answers(outcome, status) ==
    IF ~outcome.ok THEN status = outcome
    ELSE CASE outcome.code = "Ping" -> status = StatusOk(<<>>)
           [] outcome.code = "ResetStats" -> status = StatusOk(<<>>)
           [] outcome.code = "GetStats" ->
                status.code = "Ok" /\ Len(status.payload) = 9
           [] outcome.code = "Compress" ->
                status = compress(NewCompressor, outcome.payload).ret

\* C4: on every connection the k-th response written answers the k-th
\* decoded outcome, and the next item is pulled only after the previous
\* response was written: at most one outcome is unanswered, and none while
\* the task is at the top of its loop or in stream.next().
SerialOrder ==
    \A c \in Conns :
        /\ Len(responses[c]) <= Len(outcomes[c])
        /\ Len(outcomes[c]) <= Len(responses[c]) + 1
        /\ \A k \in 1..Len(responses[c]) : Answers(outcomes[c][k], responses[c][k])
        /\ pc[c] \in {"flush", "next"} => Len(outcomes[c]) = Len(responses[c])
        /\ pc[c] \in {"handle", "send"} => Len(outcomes[c]) = Len(responses[c]) + 1

\* C4 witness: three packets were written back to back; the first is
\* answered, the second is being answered and the third waits, complete, in
\* the read buffer without having been pulled
SerialOrderWitness ==
    \E c \in Conns :
        /\ pc[c] = "send"
        /\ responses[c] = <<StatusErr("NonLowerCase")>>
        /\ Len(outcomes[c]) = 2
        /\ outcomes[c][2] = RequestCode("Ping", <<>>)
        /\ rbuf[c] = GetStatsPacket

\* index of the last ResetStats among the outcomes of c, 0 if there is none
LastReset(c) ==
    LET resets == {j \in 1..Len(outcomes[c]) :
                      outcomes[c][j] = RequestCode("ResetStats", <<>>)}
    IN IF resets = {} THEN 0 ELSE CHOOSE j \in resets : \A i \in resets : i <= j

\* bytes of the response packets i..j written on c
RECURSIVE ResponseBytes(_, _, _)
ResponseBytes(c, i, j) ==
    IF i > j THEN 0
    ELSE Len(encode(responses[c][j])) + ResponseBytes(c, i, j - 1)

\* payload bytes that entered (input = TRUE) or left the compressions
\* answered Ok among the responses i..j of c
RECURSIVE CompressedBytes(_, _, _, _)
CompressedBytes(c, i, j, input) ==
    IF i > j THEN 0
    ELSE (IF outcomes[c][j].ok /\ outcomes[c][j].code = "Compress"
             /\ responses[c][j].code = "Ok"
          THEN IF input THEN Len(outcomes[c][j].payload)
               ELSE Len(responses[c][j].payload)
          ELSE 0)
         + CompressedBytes(c, i, j - 1, input)

\* what c's own traffic since its last ResetStats amounts to when its k-th
\* outcome is a GetStats: request bytes up to that packet, response bytes
\* and compressed payload bytes before it
OwnReceived(c) ==
    LET k == Len(outcomes[c])
        j == LastReset(c)
    IN cliEnds[c][k] - (IF j = 0 THEN 0 ELSE cliEnds[c][j])

OwnFirstResponse(c) == IF LastReset(c) = 0 THEN 1 ELSE LastReset(c)

OwnSent(c) == ResponseBytes(c, OwnFirstResponse(c), Len(responses[c]))

OwnBody(c) ==
    StatsBody(Wide(OwnReceived(c)), Wide(0), Wide(OwnSent(c)),
              CompressedBytes(c, OwnFirstResponse(c), Len(responses[c]), TRUE),
              CompressedBytes(c, OwnFirstResponse(c), Len(responses[c]), FALSE))

\* C5 as stated: statistics are per connection, the GetStats body returned
\* on a connection is determined by that connection's own traffic.
StatsPerConnection ==
    \A c \in Conns :
        (GetStatsSending(c) /\ ~cliStray[c]) => wbuf[c] = StatusOk(OwnBody(c))

\* sums over the connections 1..n of what has been flushed into the global
\* stats since the last ResetStats of any connection
RECURSIVE FlushedReceived(_)
FlushedReceived(n) ==
    IF n = 0 THEN 0
    ELSE flushMark[n].pos - resetMark[n].pos + FlushedReceived(n - 1)

RECURSIVE FlushedSent(_)
FlushedSent(n) ==
    IF n = 0 THEN 0
    ELSE ResponseBytes(n, resetMark[n].idx + 1, flushMark[n].idx) + FlushedSent(n - 1)

RECURSIVE FlushedCompressed(_, _)
FlushedCompressed(n, input) ==
    IF n = 0 THEN 0
    ELSE CompressedBytes(n, resetMark[n].idx + 1, flushMark[n].idx, input)
         + FlushedCompressed(n - 1, input)

\* C5 amended: statistics are process-wide. The GetStats body on a
\* connection reports what all connections have flushed into the global
\* stats since the last ResetStats of any connection (bytes consumed by the
\* decoders, response bytes written, payload bytes compressed), plus the
\* bytes its own decoder consumed since its last flush; it is a function of
\* the connection's own traffic only while no other connection has traffic.
StatsGlobal ==
    \A c \in Conns :
        GetStatsSending(c) =>
            /\ wbuf[c] = StatusOk(StatsBody(
                   Wide(FlushedReceived(NConn) + Pos(c) - flushMark[c].pos), Wide(0),
                   Wide(FlushedSent(NConn)),
                   FlushedCompressed(NConn, TRUE), FlushedCompressed(NConn, FALSE)))
            /\ (Alone(c) /\ ~cliStray[c]) => wbuf[c] = StatusOk(OwnBody(c))

\* C5 witness: a GetStats body on one connection counts the compression
\* another connection has done
StatsGlobalWitness ==
    \E c \in Conns :
        /\ GetStatsSending(c)
        /\ Len(outcomes[c]) = 1
        /\ Field(wbuf[c].payload, 1) > 8
        /\ wbuf[c].payload[9] = 75

\* C6: byte accounting seen by GetStats on a single connection, since the
\* last reset: the received field is the total of the request packets up to
\* and including the GetStats request (each handled request, accepted or
\* rejected, adds its packet's bytes), the sent field is the total of the
\* response packets written before the GetStats response.
ByteAccounting ==
    \A c \in Conns :
        (GetStatsSending(c) /\ Alone(c)) =>
            /\ wbuf[c].code = "Ok"
            /\ Len(wbuf[c].payload) = 9
            /\ Field(wbuf[c].payload, 1) = Pos(c) - resetMark[c].pos
            /\ Field(wbuf[c].payload, 5) = OwnSent(c)
            /\ ~cliStray[c] => Field(wbuf[c].payload, 1) = OwnReceived(c)

\* C6 witness: GetStats after an accepted and a rejected compress request
ByteAccountingWitness ==
    \E c \in Conns :
        /\ GetStatsSending(c)
        /\ Alone(c)
        /\ Len(outcomes[c]) = 3
        /\ responses[c][1].code = "Ok"
        /\ responses[c][2] = StatusErr("NonLowerCase")
        /\ Field(wbuf[c].payload, 1) = 12 + 12 + 8
        /\ Field(wbuf[c].payload, 5) = 11 + 8

\* the ResetStats arm of c has zeroed the counters and is sending its response
ResetStatsSending(c) ==
    pc[c] = "send" /\ item[c] = RequestCode("ResetStats", <<>>)

\* C7: ResetStats zeroes the global counters and the handling connection's
\* own counters before its Ok(empty) response is written; on a single
\* connection a GetStats right after a ResetStats reports received = 8,
\* sent = 8 and ratio 0, whatever the traffic before the reset.
ResetZeroes ==
    \A c \in Conns :
        /\ ResetStatsSending(c) =>
              /\ stats = [received |-> 0, sent |-> 0, before |-> 0, after |-> 0]
              /\ get_stats(compressor[c]) = <<0, 0>>
              /\ codec_get_stats(codec[c]) = <<0, Len(encode(StatusOk(<<>>)))>>
              /\ wbuf[c] = StatusOk(<<>>)
              /\ Len(responses[c]) < Len(outcomes[c])
        /\ (/\ GetStatsSending(c)
            /\ Alone(c)
            /\ Len(outcomes[c]) >= 2
            /\ outcomes[c][Len(outcomes[c]) - 1] = RequestCode("ResetStats", <<>>))
           => wbuf[c] = StatusOk(<<0, 0, 0, 8, 0, 0, 0, 8, 0>>)

\* C7 witness: a compression, then ResetStats, then GetStats
ResetZeroesWitness ==
    \E c \in Conns :
        /\ GetStatsSending(c)
        /\ Alone(c)
        /\ Len(outcomes[c]) = 3
        /\ outcomes[c][1].code = "Compress"
        /\ responses[c][1].code = "Ok"
        /\ outcomes[c][2] = RequestCode("ResetStats", <<>>)

\* C10: after <= before holds for every compressor and for the global
\* stats, whatever compressions, failed compressions, flushes and resets
\* have happened.
AfterAtMostBefore ==
    /\ stats.after <= stats.before
    /\ \A c \in Conns : compressor[c].after <= compressor[c].before

\* C10 witness: a failed and a successful compression were flushed into the
\* global stats, which now hold after < before
AfterAtMostBeforeWitness ==
    /\ stats.before = 4
    /\ stats.after = 3
    /\ \E c \in Conns : \E k \in 1..Len(responses[c]) :
          responses[c][k] = StatusErr("NonLowerCase")
    /\ \A c \in Conns : get_stats(compressor[c]) = <<0, 0>>

\* ------------------------------------------------------------------------
\* SpecCompress: Compressor::compress applied to drawn payloads
\* ------------------------------------------------------------------------
\* longest payload of lowercase letters drawn, and longest payload drawn
\* from letters mixed with bytes compress rejects
MaxRun == 12
MaxMixed == 5

\* 'a', 'b'
LowerBytes == {97, 98}

\* 'B', '1' and a byte above 127
RejectedBytes == {66, 49, 200}

\* the payloads: every sequence of letters up to MaxRun bytes, every
\* sequence of letters and rejected bytes up to MaxMixed bytes, and every
\* byte value behind one letter
CompressInputs ==
    SeqsUpTo(LowerBytes, MaxRun)
    \cup SeqsUpTo(LowerBytes \cup RejectedBytes, MaxMixed)
    \cup {<<97, b>> : b \in 0..255}

InitCompress ==
    /\ kInput \in CompressInputs
    /\ kBefore \in {NewCompressor, [before |-> 7, after |-> 4]}
    /\ kSelf = kBefore
    /\ kRet = NoneRet
    /\ DecodeIdle
    /\ BodyIdle
    /\ EncodeIdle
    /\ ServerIdle
    /\ ScanIdle
    /\ FlushIdle

\* compressor.compress(payload)
CompressCall ==
    /\ kRet = NoneRet
    /\ LET r == compress(kBefore, kInput)
       IN /\ kSelf' = r.self
          /\ kRet' = r.ret
    /\ UNCHANGED <<kInput, kBefore, decVars, bodyVars, encVars, srvVars, ioVars, scanVars, flushVars>>

NextCompress == CompressCall

SpecCompress == InitCompress /\ [][NextCompress]_vars

\* n copies of a letter
Copies(letter, n) == [i \in 1..n |-> letter]

\* the bytes '0'..'9' and 'a'..'z'
DigitByte(b) == b \in 48..57
LowerLetterByte(b) == b \in 97..122

\* decompression: every <decimal digits><letter> group is expanded into that
\* many copies of the letter, every other letter is passed through
\* (digits: the value of the digits read so far, -1 when none was read)
RECURSIVE Expand(_, _, _)
Expand(out, i, digits) ==
    IF i > Len(out) THEN <<>>
    ELSE IF DigitByte(out[i])
    THEN Expand(out, i + 1, (IF digits < 0 THEN 0 ELSE digits * 10) + out[i] - 48)
    ELSE Copies(out[i], IF digits < 0 THEN 1 ELSE digits) \o Expand(out, i + 1, -1)

\* the payload is made of lowercase ASCII letters
AllLowercase(input) == \A i \in 1..Len(input) : LowerLetterByte(input[i])

\* C11: round trip. For every non-empty input of lowercase ASCII letters
\* compress succeeds and expanding its output gives back the input.
RoundTrip ==
    (kRet # NoneRet /\ kInput # <<>> /\ AllLowercase(kInput)) =>
        /\ kRet.ok
        /\ Expand(kRet.payload, 1, -1) = kInput

\* C11 witness: "aaaaaaaaaaab" was compressed to "11ab", a two-digit count
\* next to a letter passed through
RoundTripWitness ==
    /\ kInput = Copies(97, 11) \o <<98>>
    /\ kRet = StatusOk(<<49, 49, 97, 98>>)

\* C12: the payload c of an Ok answer to Compress(p) is not longer than p,
\* not empty, and made of lowercase ASCII letters and ASCII decimal digits.
OutputBounded ==
    (kRet # NoneRet /\ kRet.ok) =>
        /\ Len(kRet.payload) <= Len(kInput)
        /\ Len(kRet.payload) >= 1
        /\ \A i \in 1..Len(kRet.payload) :
               LowerLetterByte(kRet.payload[i]) \/ DigitByte(kRet.payload[i])

\* C12 witness: nothing can be gained on "abab", the output is as long as
\* the input
OutputBoundedWitness ==
    /\ kInput = <<97, 98, 97, 98>>
    /\ kRet = StatusOk(kInput)

\* the number of decimal digits of n
RECURSIVE digitCount(_)
digitCount(n) == IF n < 10 THEN 1 ELSE 1 + digitCount(n \div 10)

\* the encoding of one maximal run of n letters
RunEncoding(letter, n) ==
    IF digitCount(n) + 1 < n THEN to_string(n) \o <<letter>> ELSE Copies(letter, n)

\* the length of the maximal run of input that starts at i
RECURSIVE RunLength(_, _)
RunLength(input, i) ==
    IF i < Len(input) /\ input[i + 1] = input[i] THEN 1 + RunLength(input, i + 1) ELSE 1

\* the encodings of the maximal runs of input from i on, in input order
RECURSIVE RunEncodings(_, _)
RunEncodings(input, i) ==
    IF i > Len(input) THEN <<>>
    ELSE LET n == RunLength(input, i)
         IN RunEncoding(input[i], n) \o RunEncodings(input, i + n)

\* C13: encoding rule. The output of a successful compress is the
\* concatenation, in input order, of the encodings of the maximal runs: the
\* digits of n and the letter iff digitCount(n) + 1 < n, which is n >= 3,
\* the n letters otherwise.
EncodingRule ==
    (kRet # NoneRet /\ kRet.ok) =>
        /\ kRet.payload = RunEncodings(kInput, 1)
        /\ \A i \in 1..Len(kInput) :
               LET n == RunLength(kInput, i)
               IN (digitCount(n) + 1 < n) <=> (n >= 3)

\* C13 witness: runs of 2, 3 and 1 letters: "aabbba" became "aa3ba"
EncodingRuleWitness ==
    /\ kInput = <<97, 97, 98, 98, 98, 97>>
    /\ kRet = StatusOk(<<97, 97, 51, 98, 97>>)

\* C14: the compression statistics change only on success. A successful
\* compress adds the input length to before and the output length to
\* after; a failing one returns no payload and leaves both as they were.
StatsOnlyOnSuccess ==
    kRet # NoneRet =>
        IF kRet.ok
        THEN /\ kRet.code = "Ok"
             /\ kSelf.before = kBefore.before + Len(kInput)
             /\ kSelf.after = kBefore.after + Len(kRet.payload)
        ELSE /\ kRet.code \in {"EmptyBuffer", "NonAscii", "NonAlphabetic", "NonLowerCase"}
             /\ kRet.payload = <<>>
             /\ kSelf = kBefore

\* C14 witness: "aaabB" fails at its last byte, after the run "aaa" was
\* rewritten in place as "3a", on a compressor that had counted before
StatsOnlyOnSuccessWitness ==
    /\ kInput = <<97, 97, 97, 98, 66>>
    /\ kRet = StatusErr("NonLowerCase")
    /\ kBefore = [before |-> 7, after |-> 4]
    /\ kSelf = kBefore

\* ------------------------------------------------------------------------
\* SpecScan: one call of compress taken one loop iteration at a time
\* ------------------------------------------------------------------------
InitScan ==
    /\ zInput \in CompressInputs
    /\ zBuffer = zInput
    /\ zI = 0
    /\ zWorking = 0
    /\ zCount = 0
    /\ zEnd = 0
    /\ zWrite = NoWrite
    /\ zSelf = NewCompressor
    /\ zRet = NoneRet
    /\ zPc = "entry"
    /\ DecodeIdle
    /\ BodyIdle
    /\ CompressIdle
    /\ EncodeIdle
    /\ ServerIdle
    /\ FlushIdle

\* the empty check and the init state
ScanEnter ==
    /\ zPc = "entry"
    /\ IF zBuffer = <<>>
       THEN /\ zRet' = StatusErr("EmptyBuffer")
            /\ zPc' = "done"
            /\ UNCHANGED <<zWorking, zCount, zEnd>>
       ELSE /\ zWorking' = zBuffer[1]
            /\ zCount' = 0
            /\ zEnd' = 0
            /\ zPc' = "loop"
            /\ UNCHANGED zRet
    /\ UNCHANGED <<zInput, zBuffer, zI, zWrite, zSelf,
                   decVars, bodyVars, cmpVars, encVars, srvVars, ioVars, flushVars>>

\* the return of an error out of the loop
ScanFail(error) ==
    /\ zRet' = StatusErr(error)
    /\ zPc' = "done"
    /\ UNCHANGED <<zBuffer, zI, zWorking, zCount, zEnd, zWrite>>

\* one iteration of the for loop: the byte at i is read and checked, then
\* counted to the working run or the working run is written at end
ScanByte ==
    /\ zPc = "loop"
    /\ zI < Len(zBuffer)
    /\ LET current == zBuffer[zI + 1]
       IN IF ~is_ascii(current) THEN ScanFail("NonAscii")
          ELSE IF ~is_ascii_alphabetic(current) THEN ScanFail("NonAlphabetic")
          ELSE IF ~is_ascii_lowercase(current) THEN ScanFail("NonLowerCase")
          ELSE IF current = zWorking
          THEN /\ zCount' = zCount + 1
               /\ zI' = zI + 1
               /\ UNCHANGED <<zBuffer, zWorking, zEnd, zWrite, zRet, zPc>>
          ELSE LET w == write_label(zWorking, zCount, advance(zBuffer, zEnd))
               IN /\ zBuffer' = WithSlice(zBuffer, zEnd, w.buffer)
                  /\ zWrite' = [at |-> zEnd, written |-> w.written, scanned |-> zI]
                  /\ zEnd' = zEnd + w.written
                  /\ zWorking' = current
                  /\ zCount' = 1
                  /\ zI' = zI + 1
                  /\ UNCHANGED <<zRet, zPc>>
    /\ UNCHANGED <<zInput, zSelf, decVars, bodyVars, cmpVars, encVars, srvVars, ioVars, flushVars>>

\* after the loop: the last run is written, the stats are updated and the
\* first end bytes of the buffer are returned
ScanFinish ==
    /\ zPc = "loop"
    /\ zI = Len(zBuffer)
    /\ LET w == write_label(zWorking, zCount, advance(zBuffer, zEnd))
           last == zEnd + w.written
       IN /\ zBuffer' = WithSlice(zBuffer, zEnd, w.buffer)
          /\ zWrite' = [at |-> zEnd, written |-> w.written, scanned |-> zI]
          /\ zEnd' = last
          /\ zSelf' = UpdateStats(zSelf, Len(zBuffer), last)
          /\ zRet' = StatusOk(Take(WithSlice(zBuffer, zEnd, w.buffer), last))
    /\ zPc' = "done"
    /\ UNCHANGED <<zInput, zI, zWorking, zCount,
                   decVars, bodyVars, cmpVars, encVars, srvVars, ioVars, flushVars>>

NextScan ==
    \/ ScanEnter
    \/ ScanByte
    \/ ScanFinish

SpecScan == InitScan /\ [][NextScan]_vars

\* the call taken step by step returns what compress returns
ScanIsCompress ==
    zPc = "done" =>
        LET r == compress(NewCompressor, zInput)
        IN zRet = r.ret /\ zSelf = r.self

\* C24: in-place safety of compress. Every write of a run's encoding ends at
\* or before the read cursor: the write position plus the bytes written does
\* not exceed the number of bytes scanned so far, so while the loop runs the
\* bytes from the read cursor on are still the bytes of the input.
InPlaceSafe ==
    /\ zWrite.at + zWrite.written <= zWrite.scanned
    /\ zEnd <= zI
    /\ zPc = "loop" => advance(zBuffer, zI) = advance(zInput, zI)

\* C24 witness: the run "aaa" was written as "3a" over the first two bytes
\* while the scan stands at the fourth byte, and bytes are left to scan
InPlaceSafeWitness ==
    /\ zPc = "loop"
    /\ zWrite = [at |-> 0, written |-> 2, scanned |-> 3]
    /\ Take(zBuffer, 2) = <<51, 97>>
    /\ zI = 4
    /\ zI < Len(zBuffer)

\* ------------------------------------------------------------------------
\* Properties of the compressor: which error is returned
\* ------------------------------------------------------------------------
\* the position of the first byte of input that is not a lowercase letter
FirstInvalid(input) ==
    CHOOSE i \in 1..Len(input) :
        /\ ~LowerLetterByte(input[i])
        /\ \A j \in 1..(i - 1) : LowerLetterByte(input[j])

\* the error that belongs to one invalid byte
ErrorOfByte(b) ==
    IF b >= 128 THEN StatusErr("NonAscii")
    ELSE IF b \in 65..90 THEN StatusErr("NonLowerCase")
    ELSE StatusErr("NonAlphabetic")

\* C23: the error compress returns for an invalid non-empty input is the one
\* of the first invalid byte in scan order, whatever comes behind it:
\* NonAscii for a byte >= 0x80, NonLowerCase for an uppercase letter,
\* NonAlphabetic for any other ASCII byte.
FirstInvalidDecides ==
    (kRet # NoneRet /\ kInput # <<>> /\ ~AllLowercase(kInput)) =>
        kRet = ErrorOfByte(kInput[FirstInvalid(kInput)])

\* C23 witness: an uppercase letter in front of a non-ASCII byte and a digit
\* was answered NonLowerCase
FirstInvalidDecidesWitness ==
    /\ kInput = <<97, 66, 200, 49>>
    /\ kRet = StatusErr("NonLowerCase")

\* ------------------------------------------------------------------------
\* Properties of the decoder: classification
\* ------------------------------------------------------------------------
\* the header fields of the first packet of the stream, read off the bytes
\* written: the length at offset 4 and the code at offset 6 of the packet
HeaderLength == get_u16(advance(dStream, dGarbage + 4))
HeaderCode == get_u16(advance(dStream, dGarbage + 6))

\* the bytes that follow the header of the first packet
AfterHeader == advance(dStream, dGarbage + 8)

\* what the protocol's table gives for a header with a length L <= MAX_PAYLOAD
Classified(L, code) ==
    CASE code = 1 -> IF L = 0 THEN RequestCode("Ping", <<>>) ELSE StatusErr("NonEmptyBuffer")
      [] code = 2 -> IF L = 0 THEN RequestCode("GetStats", <<>>) ELSE StatusErr("NonEmptyBuffer")
      [] code = 3 -> IF L = 0 THEN RequestCode("ResetStats", <<>>) ELSE StatusErr("NonEmptyBuffer")
      [] code = 4 -> IF L = 0 THEN StatusErr("EmptyBuffer")
                     ELSE RequestCode("Compress", Take(AfterHeader, L))
      [] OTHER -> StatusErr("UnsupportedRequestType")

\* C15: classification. After a magic and a length L <= MAX_PAYLOAD the
\* first outcome is the one the table gives for the code and L: the request
\* for 1/2/3 with L = 0, NonEmptyBuffer for 1/2/3 with L > 0, EmptyBuffer for
\* 4 with L = 0, Compress with exactly the next L bytes for 4 with L > 0
\* (delivered once they all arrived, never earlier), UnsupportedRequestType
\* for any other code; every Compress payload has 1..MAX_PAYLOAD bytes.
Classification ==
    /\ (dOuts # <<>> /\ HeaderLength <= max_payload_len) =>
          /\ dOuts[1] = Classified(HeaderLength, HeaderCode)
          /\ (HeaderCode = 4 /\ HeaderLength > 0) => dFed >= dGarbage + 8 + HeaderLength
    /\ \A i \in 1..Len(dOuts) :
          dOuts[i].code = "Compress" =>
              Len(dOuts[i].payload) \in 1..max_payload_len

\* C15 witness: a Compress header with L = 2 came after garbage, its two
\* payload bytes were delivered and the packet behind it was not touched
ClassificationWitness ==
    /\ dGarbage > 0
    /\ HeaderCode = 4
    /\ HeaderLength = 2
    /\ dOuts = <<RequestCode("Compress", <<97, 98>>)>>
    /\ ~dBusy

\* ------------------------------------------------------------------------
\* Properties of the decoder: the oversize check
\* ------------------------------------------------------------------------
\* one arm in PayloadLen with both length bytes buffered: a length above the
\* limit is answered MessageTooLarge with the state back in MagicHeader, any
\* other length is carried into RequestCode without an outcome; either way
\* exactly the two length bytes leave the buffer
OversizeArm ==
    (/\ dBusy
     /\ dState = StPayloadLen
     /\ Len(dSrc) >= 2)
    => /\ dSrc' = SubSeq(dSrc, 3, Len(dSrc))
       /\ IF get_u16(dSrc) > max_payload_len
          THEN /\ dOuts' = Append(dOuts, StatusErr("MessageTooLarge"))
               /\ dState' = StMagicHeader
          ELSE /\ dOuts' = dOuts
               /\ dState' = StRequestCode(get_u16(dSrc))

\* the first outcome of a stream is MessageTooLarge exactly when the length
\* of its first header is above the limit, and then it is there as soon as
\* the six bytes up to the length have been decoded
OversizeFirst ==
    /\ (dOuts # <<>>) =>
          ((dOuts[1] = StatusErr("MessageTooLarge")) <=> (HeaderLength > max_payload_len))
    /\ (HeaderLength > max_payload_len /\ ~dBusy /\ dFed >= dGarbage + 6) =>
          dOuts # <<>>

\* C21: oversize check. In PayloadLen a length L > MAX_PAYLOAD yields
\* MessageTooLarge and resets to MagicHeader, L = MAX_PAYLOAD is accepted;
\* the check comes before the request code is read, so the outcome is
\* MessageTooLarge whatever the code bytes are, and that step consumes the
\* two length bytes only.
OversizeCheck == []OversizeFirst /\ [][OversizeArm]_vars

\* C21 witness: a header with L = MAX_PAYLOAD + 1 and code 1 was delivered up
\* to its length bytes only, and MessageTooLarge has already been emitted
OversizeCheckWitness ==
    /\ HeaderLength = max_payload_len + 1
    /\ HeaderCode = 1
    /\ dFed = dGarbage + 6
    /\ ~dBusy
    /\ dOuts = <<StatusErr("MessageTooLarge")>>
    /\ dState = StMagicHeader
    /\ dSrc = <<>>

\* ------------------------------------------------------------------------
\* Properties of the decoder: a payload declared for the codes 1, 2, 3
\* ------------------------------------------------------------------------
\* one arm in RequestCode with a length L > 0 and a buffered code 1, 2 or 3:
\* NonEmptyBuffer is emitted, the state is back in MagicHeader and only the
\* two code bytes leave the buffer
StrayPayloadArm ==
    (/\ dBusy
     /\ dState.name = "RequestCode"
     /\ dState.length > 0
     /\ Len(dSrc) >= 2
     /\ get_u16(dSrc) \in {1, 2, 3})
    => /\ dSrc' = SubSeq(dSrc, 3, Len(dSrc))
       /\ dOuts' = Append(dOuts, StatusErr("NonEmptyBuffer"))
       /\ dState' = StMagicHeader

\* the first header of the stream has a code 1, 2 or 3 and declares a payload
StrayPayloadHeader ==
    /\ HeaderCode \in {1, 2, 3}
    /\ HeaderLength \in 1..max_payload_len

\* behind such a header the decoder is where a fresh decoder would be that
\* was given the bytes after the 8 header bytes, declared payload included
StrayPayloadScanned ==
    (StrayPayloadHeader /\ ~dBusy /\ dFed >= dGarbage + 8) =>
        LET fresh == DecodeAll(StMagicHeader,
                               SubSeq(dStream, dGarbage + 9, dFed), <<>>)
        IN /\ dOuts = <<StatusErr("NonEmptyBuffer")>> \o fresh.outs
           /\ dState = fresh.state
           /\ dSrc = fresh.src

\* a GetStats header declaring 8 bytes that are a Ping packet: the Ping is
\* answered as a packet of its own
StrayPacketDecoded ==
    (/\ dStream = packet(8, 2, PingPacket)
     /\ dFed = Len(dStream)
     /\ ~dBusy)
    => dOuts = <<StatusErr("NonEmptyBuffer"), RequestCode("Ping", <<>>)>>

\* C22: a packet with code 1, 2 or 3 and a declared length L > 0 yields
\* NonEmptyBuffer having consumed the 8 header bytes only; the L declared
\* bytes stay in the buffer and are scanned in MagicHeader like any other
\* stream bytes, so a "STRY" header inside them starts a new packet.
StrayPayload ==
    /\ [](StrayPayloadScanned /\ StrayPacketDecoded)
    /\ [][StrayPayloadArm]_vars

\* C22 witness: the GetStats header with L = 8 was delivered with the Ping
\* packet it declares as payload, and both outcomes have been emitted
StrayPayloadWitness ==
    /\ dStream = packet(8, 2, PingPacket)
    /\ dFed = Len(dStream)
    /\ ~dBusy
    /\ dOuts = <<StatusErr("NonEmptyBuffer"), RequestCode("Ping", <<>>)>>
    /\ dSrc = <<>>

\* ------------------------------------------------------------------------
\* SpecEncode: PacketCodec::encode applied to drawn statuses
\* ------------------------------------------------------------------------
\* longest Ok payload drawn
MaxOkLen == 5

\* the error variants of StatusCode
ErrorVariants ==
    {"UnknownError", "MessageTooLarge", "UnsupportedRequestType", "EmptyBuffer",
     "NonEmptyBuffer", "NonAscii", "NonAlphabetic", "NonLowerCase", "IoError"}

\* the statuses: Ok with payloads of 'a', '3' and a zero byte, every error
EncodeItems ==
    {StatusOk(p) : p \in SeqsUpTo({97, 51, 0}, MaxOkLen)}
    \cup {StatusErr(e) : e \in ErrorVariants}

InitEncode ==
    /\ eItem \in EncodeItems
    /\ eDst \in {<<>>, encode(StatusOk(<<>>))}
    /\ eOut = <<>>
    /\ DecodeIdle
    /\ BodyIdle
    /\ CompressIdle
    /\ ServerIdle
    /\ ScanIdle
    /\ FlushIdle

\* codec.encode(item, dst)
EncodeCall ==
    /\ eOut = <<>>
    /\ eOut' = eDst \o encode(eItem)
    /\ UNCHANGED <<eItem, eDst, decVars, bodyVars, cmpVars, srvVars, ioVars, scanVars, flushVars>>

NextEncode == EncodeCall

SpecEncode == InitEncode /\ [][NextEncode]_vars

\* the status code the protocol assigns to a status
WireCode(name) ==
    CASE name = "Ok" -> 0
      [] name = "UnknownError" -> 1
      [] name = "MessageTooLarge" -> 2
      [] name = "UnsupportedRequestType" -> 3
      [] name = "EmptyBuffer" -> 33
      [] name = "NonEmptyBuffer" -> 34
      [] name = "NonAscii" -> 35
      [] name = "NonAlphabetic" -> 36
      [] name = "NonLowerCase" -> 37
      [] name = "IoError" -> 1

\* C17: encoder output. encode appends exactly the magic, the 16-bit
\* big-endian payload length, the 16-bit big-endian code and the payload:
\* length |p|, code 0 and p for Ok(p) (8 + |p| bytes), length 0, the
\* status's code and no payload for any other status (8 bytes); no code in
\* 4..32 is written.
EncoderOutput ==
    eOut # <<>> =>
        LET written == advance(eOut, Len(eDst))
            length == written[5] * 256 + written[6]
            code == written[7] * 256 + written[8]
        IN /\ Take(eOut, Len(eDst)) = eDst
           /\ Take(written, 4) = <<83, 84, 82, 89>>
           /\ \A i \in 5..8 : written[i] \in 0..255
           /\ code = WireCode(eItem.code)
           /\ code \notin 4..32
           /\ IF eItem.code = "Ok"
              THEN /\ length = Len(eItem.payload)
                   /\ advance(written, 8) = eItem.payload
                   /\ Len(written) = 8 + Len(eItem.payload)
              ELSE /\ length = 0
                   /\ Len(written) = 8

\* C17 witness: Ok("3a") was appended to a buffer that held a packet: 10
\* bytes with length 2 and code 0
EncoderOutputWitness ==
    /\ eItem = StatusOk(<<51, 97>>)
    /\ eDst # <<>>
    /\ eOut = eDst \o <<83, 84, 82, 89, 0, 2, 0, 0, 51, 97>>

\* ------------------------------------------------------------------------
\* SpecIo: the server with clients that close their side and sockets that
\* fail
\* ------------------------------------------------------------------------
\* socket errors in one behaviour, and items one connection is handed
MaxFaults == 1
MaxOutcomes == 3

\* what a client may write right before it shuts down its sending side:
\* nothing, or the first two bytes of a packet
CloseTails == {<<>>, <<83, 84>>}

\* Decoder::decode_eof as the codec inherits it: decode, and when that
\* returns None the stream ends if the buffer is empty and is in error
\* ("bytes remaining on stream", an io::Error turned into IoError) if not
decode_eof(state, src) ==
    LET r == decode(state, src)
    IN IF r.ret # NoneRet
       THEN [state |-> r.state, src |-> r.src, ret |-> r.ret, end |-> FALSE]
       ELSE IF r.src = <<>>
       THEN [state |-> r.state, src |-> r.src, ret |-> NoneRet, end |-> TRUE]
       ELSE [state |-> r.state, src |-> r.src, ret |-> StatusErr("IoError"), end |-> FALSE]

\* the client writes tail and shuts down its sending side
ClientClose(c, tail) ==
    /\ ~closed[c]
    /\ tail # <<>> => PacketsWritten(NConn) < MaxPkts
    /\ closed' = [closed EXCEPT ![c] = TRUE]
    /\ wire' = [wire EXCEPT ![c] = @ \o tail]
    /\ cliEnds' = [cliEnds EXCEPT ![c] =
                       IF tail = <<>> THEN @ ELSE Append(@, Written(c) + Len(tail))]
    /\ UNCHANGED <<cliStray, rbuf, readable, codec, compressor, pc, item, wbuf, stats,
                   lock, outcomes, responses, flushMark, resetMark, eof, wfailed,
                   cliSent, faults, decVars, bodyVars, cmpVars, encVars, scanVars, flushVars>>

\* stream.next() on a socket whose peer has shut down and whose bytes were
\* all read: the read returns 0, Framed marks eof and calls decode_eof, now
\* and on every later poll. None ends the loop (None => break); an error
\* is handed to the loop like any other
PollEof(c) ==
    /\ pc[c] = "next"
    /\ closed[c]
    /\ wire[c] = <<>>
    /\ (readable[c] /\ ~eof[c]) => decode(codec[c].state, rbuf[c]).ret = NoneRet
    /\ LET r == decode_eof(codec[c].state, rbuf[c])
       IN /\ r.end \/ Len(outcomes[c]) < MaxOutcomes
          /\ codec' = [codec EXCEPT ![c] =
                          CountReceived([@ EXCEPT !.state = r.state],
                                        Len(rbuf[c]) - Len(r.src))]
          /\ rbuf' = [rbuf EXCEPT ![c] = r.src]
          /\ eof' = [eof EXCEPT ![c] = TRUE]
          /\ readable' = [readable EXCEPT ![c] = TRUE]
          /\ IF r.end
             THEN /\ pc' = [pc EXCEPT ![c] = "done"]
                  /\ UNCHANGED <<item, outcomes>>
             ELSE /\ item' = [item EXCEPT ![c] = r.ret]
                  /\ outcomes' = [outcomes EXCEPT ![c] = Append(@, r.ret)]
                  /\ pc' = [pc EXCEPT ![c] = "handle"]
    /\ UNCHANGED <<cliEnds, cliStray, wire, compressor, wbuf, stats, lock, responses,
                   flushMark, resetMark, closed, wfailed, cliSent, faults,
                   decVars, bodyVars, cmpVars, encVars, scanVars, flushVars>>

\* stream.next() when the socket read fails: decode found no item in the
\* buffer, the io::Error of the read comes back as Some(Err(IoError))
ReadError(c) ==
    /\ pc[c] = "next"
    /\ ~eof[c]
    /\ faults < MaxFaults
    /\ Len(outcomes[c]) < MaxOutcomes
    /\ LET r == IF readable[c] THEN decode(codec[c].state, rbuf[c])
                ELSE Arm(codec[c].state, rbuf[c], NoneRet, FALSE)
       IN /\ r.ret = NoneRet
          /\ codec' = [codec EXCEPT ![c] =
                          CountReceived([@ EXCEPT !.state = r.state],
                                        Len(rbuf[c]) - Len(r.src))]
          /\ rbuf' = [rbuf EXCEPT ![c] = r.src]
    /\ readable' = [readable EXCEPT ![c] = FALSE]
    /\ item' = [item EXCEPT ![c] = StatusErr("IoError")]
    /\ outcomes' = [outcomes EXCEPT ![c] = Append(@, StatusErr("IoError"))]
    /\ pc' = [pc EXCEPT ![c] = "handle"]
    /\ faults' = faults + 1
    /\ UNCHANGED <<cliEnds, cliStray, wire, compressor, wbuf, stats, lock, responses,
                   flushMark, resetMark, closed, eof, wfailed, cliSent,
                   decVars, bodyVars, cmpVars, encVars, scanVars, flushVars>>

\* the write of stream.send fails: `?` returns the error from the task,
\* which ends (dropping the lock guard a handler took)
WriteError(c) ==
    /\ pc[c] = "send"
    /\ faults < MaxFaults
    /\ faults' = faults + 1
    /\ wfailed' = [wfailed EXCEPT ![c] = TRUE]
    /\ wbuf' = [wbuf EXCEPT ![c] = NoneRet]
    /\ item' = [item EXCEPT ![c] = NoneRet]
    /\ lock' = IF lock = c THEN 0 ELSE lock
    /\ pc' = [pc EXCEPT ![c] = "done"]
    /\ UNCHANGED <<cliEnds, cliStray, wire, rbuf, readable, codec, compressor, stats,
                   outcomes, responses, flushMark, resetMark, closed, eof, cliSent,
                   decVars, bodyVars, cmpVars, encVars, scanVars, flushVars>>

\* the packets these clients write: Ping, a Compress header without payload
\* (EmptyBuffer), and a Ping header that declares 8 payload bytes and
\* carries the header of a Compress packet of 8 bytes
IoMenu == <<
    [bytes |-> PingPacket, stray |-> FALSE],
    [bytes |-> packet(0, 4, <<>>), stray |-> FALSE],
    [bytes |-> packet(8, 1, packet(8, 4, <<>>)), stray |-> TRUE] >>

NextIo ==
    \/ \E c \in Conns, k \in 1..Len(IoMenu) : ClientSend(c, IoMenu[k])
    \/ \E c \in Conns : Flush(c)
    \/ \E c \in Conns : PollNext(c)
    \/ \E c \in Conns : HandlePing(c)
    \/ \E c \in Conns : HandleCompress(c)
    \/ \E c \in Conns : HandleError(c)
    \/ \E c \in Conns : WriteDone(c)
    \/ \E c \in Conns, tail \in CloseTails : ClientClose(c, tail)
    \/ \E c \in Conns : PollEof(c)
    \/ \E c \in Conns : ReadError(c)
    \/ \E c \in Conns : WriteError(c)

SpecIo == Init /\ [][NextIo]_vars

\* ------------------------------------------------------------------------
\* Properties of the server: errors and the life of a connection
\* ------------------------------------------------------------------------
\* the statuses the decoder rejects a packet with
FramingErrors ==
    {"MessageTooLarge", "UnsupportedRequestType", "EmptyBuffer", "NonEmptyBuffer"}

\* how far the decoder is into a packet
Rank(state) ==
    CASE state.name = "MagicHeader" -> 1
      [] state.name = "PayloadLen" -> 2
      [] state.name = "RequestCode" -> 3
      [] state.name = "Payload" -> 4

\* decode has returned a request or an error status: the state is
\* MagicHeader (an IoError is made by Framed, not returned by decode)
ResetOnReturn ==
    \A c \in Conns :
        (pc[c] = "handle" /\ item[c].code # "IoError") => codec[c].state = StMagicHeader

\* between two returns the state only moves forward and keeps its length
ForwardOnly ==
    \A c \in Conns :
        outcomes'[c] = outcomes[c] =>
            /\ Rank(codec'[c].state) >= Rank(codec[c].state)
            /\ (codec[c].state.name = "RequestCode" /\ codec'[c].state.name = "Payload")
                   => codec'[c].state.length = codec[c].state.length

\* a framing error does not end the loop (only the end of the stream and a
\* failed write do), it is answered with its status, and the outcome decoded
\* after it is answered as usual
OpenAfterError ==
    \A c \in Conns :
        /\ pc[c] = "done" => (eof[c] \/ wfailed[c])
        /\ \A k \in 1..Len(responses[c]) :
              outcomes[c][k].code \in FramingErrors =>
                  /\ responses[c][k] = outcomes[c][k]
                  /\ k < Len(responses[c]) =>
                         Answers(outcomes[c][k + 1], responses[c][k + 1])

\* the number of elements of a sequence that equal x
RECURSIVE Count(_, _)
Count(seq, x) ==
    IF seq = <<>> THEN 0
    ELSE (IF Head(seq) = x THEN 1 ELSE 0) + Count(Tail(seq), x)

\* every Ping packet the client of c wrote was decoded as Ping and answered
\* Ok, once the task has handled all bytes written
PingsAnswered(c) ==
    (Quiescent(c) /\ ~wfailed[c]) =>
        /\ Count(outcomes[c], RequestCode("Ping", <<>>)) = Count(cliSent[c], PingPacket)
        /\ Count(responses[c], StatusOk(<<>>)) = Count(cliSent[c], PingPacket)

\* C16 as stated: the state is MagicHeader after every return and moves
\* forward between returns; after a framing error the connection stays
\* open and the next well-formed packet is decoded and answered normally,
\* whatever the rejected packet was.
RecoversAlways ==
    /\ [](ResetOnReturn /\ OpenAfterError /\ \A c \in Conns : PingsAnswered(c))
    /\ [][ForwardOnly]_vars

\* C16 amended: as stated, but the next well-formed packet is decoded and
\* answered normally only if the rejected packets left no bytes behind; the
\* payload bytes of a rejected packet stay in the stream and are decoded as
\* input, which can swallow the packet that follows.
RecoversUnlessStray ==
    /\ [](ResetOnReturn /\ OpenAfterError
            /\ \A c \in Conns : ~cliStray[c] => PingsAnswered(c))
    /\ [][ForwardOnly]_vars

\* C16 witness: a Compress header without payload was rejected with
\* EmptyBuffer, the Ping written after it was answered Ok, and the task is
\* waiting for the next packet
RecoversUnlessStrayWitness ==
    \E c \in Conns :
        /\ cliSent[c] = <<packet(0, 4, <<>>), PingPacket>>
        /\ responses[c] = <<StatusErr("EmptyBuffer"), StatusOk(<<>>)>>
        /\ Quiescent(c)
        /\ codec[c].state = StMagicHeader

\* ------------------------------------------------------------------------
\* Properties of the server: the lock and the independence of connections
\* ------------------------------------------------------------------------
\* C18: the Stats lock is never held by a task that is in a socket read
\* (stream.next) or a socket write (stream.send), in particular not while
\* the GetStats or ResetStats response is being sent.
NoLockAcrossIo ==
    \A c \in Conns : pc[c] \in {"next", "send"} => lock # c

\* stream.next() of c can return or read: the enabling condition of PollNext
PollReady(c) == pc[c] = "next" /\ ~eof[c] /\ (readable[c] \/ wire[c] # <<>>)

\* the steps of the task of c that decode, format or compress
Work(c) == PollNext(c) \/ HandleGetStats(c) \/ HandleCompress(c)

\* the enabling condition of Work(c)
CanWork(c) ==
    \/ PollReady(c)
    \/ pc[c] = "handle" /\ item[c] = RequestCode("GetStats", <<>>) /\ lock = 0
    \/ pc[c] = "handle" /\ item[c].ok /\ item[c].code = "Compress"

\* weak fairness of Work(c), WF_vars(Work(c)), with ENABLED written out as
\* CanWork(c)
FairWork(c) == []<>(~CanWork(c)) \/ []<><<Work(c)>>_vars

\* SpecStall: the task of connection 1 may stall anywhere and its client
\* may stop reading; every other connection's task keeps running (the
\* runtime schedules every task that can run) and its client keeps
\* reading, so that its writes complete
SpecStall ==
    /\ Init
    /\ [][Next]_vars
    /\ \A c \in Conns \ {1} :
          /\ WF_vars(Flush(c))
          /\ WF_vars(HandlePing(c))
          /\ WF_vars(HandleResetStats(c))
          /\ WF_vars(HandleError(c))
          /\ WF_vars(WriteDone(c))
          /\ FairWork(c)

\* C19: connections proceed independently. Wherever connection 1 is
\* stalled, every packet written on another connection is eventually
\* answered.
Independent ==
    \A c \in Conns \ {1} : \A k \in 1..MaxPkts :
        (Len(cliSent[c]) >= k) ~> (Len(responses[c]) >= k)

\* the loop of c was handed a transport error
IoErrorSeen(c) == \E k \in 1..Len(outcomes[c]) : outcomes[c][k].code = "IoError"

\* C20: transport errors are fatal to the connection. Once the dispatcher
\* of a connection was handed an IoError by stream.next(), or has seen the
\* end of the client's stream, it does not return to the top of its loop
\* (it may still be writing the status of the error) and no further item
\* is taken from the stream; a failed write ends the loop at once; a task
\* only ends for the end of its own stream or its own failed write.
TransportErrorFatal ==
    \A c \in Conns :
        /\ (IoErrorSeen(c) \/ eof[c]) =>
              /\ pc[c] \in {"handle", "send", "done"}
              /\ Count(outcomes[c], StatusErr("IoError")) <= 1
              /\ ~IoErrorSeen(c) \/ outcomes[c][Len(outcomes[c])].code = "IoError"
        /\ wfailed[c] => pc[c] = "done"
        /\ pc[c] = "done" => (eof[c] \/ wfailed[c])

\* ------------------------------------------------------------------------
\* SpecFlush: the server with the flush block taken statement by statement
\* and no ResetStats request
\* ------------------------------------------------------------------------
\* get local stats: the counters of the codec and the compressor are read
FlushRead(c) ==
    /\ pc[c] = "flush"
    /\ LET local == codec_get_stats(codec[c])
           comp == get_stats(compressor[c])
       IN snap' = [snap EXCEPT ![c] = [received |-> local[1], sent |-> local[2],
                                       before |-> comp[1], after |-> comp[2]]]
    /\ pc' = [pc EXCEPT ![c] = "lock"]
    /\ UNCHANGED <<cliEnds, cliStray, wire, rbuf, readable, codec, compressor, item,
                   wbuf, stats, lock, outcomes, responses, flushMark, resetMark,
                   decVars, bodyVars, cmpVars, encVars, ioVars, scanVars>>

\* variant of the locked part of the flush that does not reset the local stats
FlushLocked_keep(c) ==
    /\ pc[c] = "lock"
    /\ lock = 0
    /\ stats' = [received |-> stats.received + snap[c].received,
                 sent |-> stats.sent + snap[c].sent,
                 before |-> stats.before + snap[c].before,
                 after |-> stats.after + snap[c].after]
    /\ flushMark' = [flushMark EXCEPT ![c] = [pos |-> Pos(c), idx |-> Len(responses[c])]]
    /\ pc' = [pc EXCEPT ![c] = "next"]
    /\ UNCHANGED <<cliEnds, cliStray, wire, rbuf, readable, codec, compressor, item,
                   wbuf, lock, outcomes, responses, resetMark,
                   decVars, bodyVars, cmpVars, encVars, ioVars, scanVars, flushVars>>

\* stats.lock().await is granted: the values read are added to the global
\* stats, the local stats are reset and the guard is dropped
FlushLocked(c) ==
    /\ pc[c] = "lock"
    /\ lock = 0
    /\ stats' = [received |-> stats.received + snap[c].received,
                 sent |-> stats.sent + snap[c].sent,
                 before |-> stats.before + snap[c].before,
                 after |-> stats.after + snap[c].after]
    /\ codec' = [codec EXCEPT ![c] = codec_reset_stats(@)]
    /\ compressor' = [compressor EXCEPT ![c] = reset_stats(@)]
    /\ flushMark' = [flushMark EXCEPT ![c] = [pos |-> Pos(c), idx |-> Len(responses[c])]]
    /\ pc' = [pc EXCEPT ![c] = "next"]
    /\ UNCHANGED <<cliEnds, cliStray, wire, rbuf, readable, item, wbuf, lock,
                   outcomes, responses, resetMark,
                   decVars, bodyVars, cmpVars, encVars, ioVars, scanVars, flushVars>>

\* the packets the clients of SpecFlush write: Ping, GetStats, a compress
\* request that is accepted, one that the compressor rejects and one that
\* the decoder rejects
FlushMenu == <<
    [bytes |-> PingPacket, stray |-> FALSE],
    [bytes |-> GetStatsPacket, stray |-> FALSE],
    [bytes |-> packet(4, 4, <<97, 97, 97, 98>>), stray |-> FALSE],
    [bytes |-> packet(4, 4, <<97, 97, 97, 66>>), stray |-> FALSE],
    [bytes |-> packet(0, 4, <<>>), stray |-> FALSE] >>

NextFlush ==
    \/ \E c \in Conns, k \in 1..Len(FlushMenu) : ClientSend(c, FlushMenu[k])
    \/ \E c \in Conns : FlushRead(c)
    \/ \E c \in Conns : FlushLocked(c)
    \/ \E c \in Conns : PollNext(c)
    \/ \E c \in Conns : HandlePing(c)
    \/ \E c \in Conns : HandleGetStats(c)
    \/ \E c \in Conns : HandleCompress(c)
    \/ \E c \in Conns : HandleError(c)
    \/ \E c \in Conns : WriteDone(c)

SpecFlush == Init /\ [][NextFlush]_vars

\* the response bytes the encoder of c has written: the responses with the
\* client and the one being sent
SentBytes(c) ==
    ResponseBytes(c, 1, Len(responses[c]))
    + (IF pc[c] = "send" THEN Len(encode(wbuf[c])) ELSE 0)

\* the payload bytes that entered (input = TRUE) or left the compressions
\* of c that succeeded, the one being answered included
PayloadBytes(c, input) ==
    CompressedBytes(c, 1, Len(responses[c]), input)
    + (IF pc[c] = "send" /\ item[c].ok /\ item[c].code = "Compress" /\ wbuf[c].code = "Ok"
       THEN IF input THEN Len(item[c].payload) ELSE Len(wbuf[c].payload)
       ELSE 0)

\* the sum of f(c) over the connections 1..n
RECURSIVE SumConns(_, _)
SumConns(f(_), n) == IF n = 0 THEN 0 ELSE f(n) + SumConns(f, n - 1)

\* C25: flushing is one atomic step as far as the counters go. With no
\* ResetStats, under every interleaving of the connection tasks, the global
\* stats plus the local counters not yet flushed are the true totals: the
\* bytes the decoders consumed, the bytes the encoders wrote, the payload
\* bytes compressed and their compressed size; each is counted once. A task
\* waiting for the lock still has the local counters it has read.
CountedOnce ==
    /\ stats.received + SumConns(LAMBDA c : codec[c].received, NConn)
          = SumConns(Pos, NConn)
    /\ stats.sent + SumConns(LAMBDA c : codec[c].sent, NConn)
          = SumConns(SentBytes, NConn)
    /\ stats.before + SumConns(LAMBDA c : compressor[c].before, NConn)
          = SumConns(LAMBDA c : PayloadBytes(c, TRUE), NConn)
    /\ stats.after + SumConns(LAMBDA c : compressor[c].after, NConn)
          = SumConns(LAMBDA c : PayloadBytes(c, FALSE), NConn)
    /\ \A c \in Conns :
          pc[c] = "lock" =>
              /\ snap[c].received = codec[c].received
              /\ snap[c].sent = codec[c].sent
              /\ snap[c].before = compressor[c].before
              /\ snap[c].after = compressor[c].after

\* C25 witness: a task has read local counters that are not zero and waits
\* for the lock, which the GetStats arm of the other task holds while the
\* global stats already hold flushed bytes
CountedOnceWitness ==
    \E c \in Conns : \E d \in Conns \ {c} :
        /\ pc[c] = "lock"
        /\ snap[c].received > 0
        /\ snap[c].sent > 0
        /\ snap[c].before > 0
        /\ lock = d
        /\ stats.received > 0
        /\ stats.sent > 0

\* ------------------------------------------------------------------------
\* SpecFair: the server with every task scheduled and every client reading
\* ------------------------------------------------------------------------
\* every task that can run is run by the runtime, and every client reads
\* its responses, so that every write of stream.send completes
SpecFair ==
    /\ Init
    /\ [][Next]_vars
    /\ \A c \in Conns :
          /\ WF_vars(Flush(c))
          /\ WF_vars(HandlePing(c))
          /\ WF_vars(HandleResetStats(c))
          /\ WF_vars(HandleError(c))
          /\ WF_vars(WriteDone(c))
          /\ FairWork(c)

\* the task of c is at stats.lock().await: in the flush block or at the top
\* of the GetStats or ResetStats arm
LockRequested(c) ==
    \/ pc[c] = "flush"
    \/ /\ pc[c] = "handle"
       /\ item[c] \in {RequestCode("GetStats", <<>>), RequestCode("ResetStats", <<>>)}

\* the holder of the lock is in the send of its GetStats or ResetStats arm,
\* never at a stats.lock().await
HolderNotRequesting ==
    /\ lock \in {0} \cup Conns
    /\ \A c \in Conns :
          lock = c =>
              /\ ~LockRequested(c)
              /\ pc[c] = "send"
              /\ item[c] \in {RequestCode("GetStats", <<>>), RequestCode("ResetStats", <<>>)}

\* C26: the Stats lock is never requested by the task that holds it (the
\* guard of the GetStats and ResetStats arms is dropped when the arm ends,
\* before the flush of the next iteration), and with every task scheduled
\* and every client reading its responses every request for the lock is
\* eventually granted.
LockGranted ==
    /\ []HolderNotRequesting
    /\ \A c \in Conns : LockRequested(c) ~> ~LockRequested(c)

\* C26 witness: a task is back at the flush block after its GetStats arm
\* while the other task holds the lock in its own GetStats or ResetStats arm
LockGrantedWitness ==
    \E c \in Conns : \E d \in Conns \ {c} :
        /\ pc[c] = "flush"
        /\ Len(responses[c]) >= 1
        /\ outcomes[c][Len(outcomes[c])] = RequestCode("GetStats", <<>>)
        /\ lock = d
        /\ pc[d] = "send"

====
